---------------------------- MODULE Spec2Model ----------------------------
(***************************************************************************)
(* File-manager tool server (src/index.js): the tool dispatcher, the       *)
(* handlers and the filesystem they act on.                                *)
(*                                                                         *)
(* Strings are sequences of atoms.  An atom is a separator ("/" or "\"),   *)
(* a dot, an underscore, a decimal number or a run of letters; every       *)
(* string operation of the code (toLowerCase, endsWith, path.join,         *)
(* path.basename, path.extname, path.resolve) is computed on that          *)
(* sequence.  A path is the string the code holds, in normal form:         *)
(* "/" seg "/" seg ...                                                     *)
(*                                                                         *)
(* One step of a request is one filesystem call together with the          *)
(* synchronous code that follows it up to the next filesystem call.        *)
(***************************************************************************)
EXTENDS Integers, Sequences, FiniteSets, TLC

(***************************************************************************)
(* Bounds of the model.                                                    *)
(***************************************************************************)
NumRequests == 2

(***************************************************************************)
(* Strings.                                                                *)
(***************************************************************************)
Sep == "/"

Seps == {"/", "\\"}

Dot == "."

\* String.prototype.toLowerCase, atom by atom.
LowerAtom(a) ==
    CASE a = "SVG" -> "svg"
      [] a = "PDF" -> "pdf"
      [] a = "B" -> "b"
      [] a = "Downloads" -> "downloads"
      [] a = "Documents" -> "documents"
      [] a = "OneDrive" -> "onedrive"
      [] a = "Projects" -> "projects"
      [] a = "Icons" -> "icons"
      [] OTHER -> a

\* F applied to the value of v, with v evaluated once.
Bind(v, F(_)) == CHOOSE y \in {F(x) : x \in {v}} : TRUE

toLowerCase(s) == Bind(s, LAMBDA t : [i \in 1..Len(t) |-> LowerAtom(t[i])])

\* String.prototype.endsWith
endsWith(s, suffix) ==
    /\ Len(suffix) <= Len(s)
    /\ SubSeq(s, Len(s) - Len(suffix) + 1, Len(s)) = suffix

\* String.prototype.startsWith
startsWith(s, prefix) ==
    /\ Len(prefix) <= Len(s)
    /\ SubSeq(s, 1, Len(prefix)) = prefix

\* The greatest index of s that holds an atom of set, 0 when there is none.
LastIndexIn(s, set) ==
    Bind({i \in 1..Len(s) : s[i] \in set},
         LAMBDA hits : IF hits = {} THEN 0 ELSE CHOOSE i \in hits : \A j \in hits : j <= i)

(***************************************************************************)
(* The path module of the runtime.                                         *)
(***************************************************************************)
\* The non-empty segments of a path string, split at the separators: the runs of
\* atoms between separators, in their order.
Segments(s) ==
    Bind(s, LAMBDA t :
        LET n == Len(t)
            starts == {i \in 1..n : t[i] \notin Seps /\ (i = 1 \/ t[i - 1] \in Seps)}
            start(k) == CHOOSE i \in starts : Cardinality({j \in starts : j < i}) = k - 1
            end(i) == CHOOSE j \in i..n :
                          /\ \A m \in i..j : t[m] \notin Seps
                          /\ j = n \/ t[j + 1] \in Seps
        IN [k \in 1..Cardinality(starts) |-> SubSeq(t, start(k), end(start(k)))])

RECURSIVE Collapse(_, _)
\* Resolution of "." and ".." segments, left to right.
Collapse(acc, segs) ==
    Bind(<<acc, segs>>, LAMBDA t :
        IF t[2] = <<>> THEN t[1]
        ELSE IF Head(t[2]) = <<Dot>> THEN Collapse(t[1], Tail(t[2]))
        ELSE IF Head(t[2]) = <<Dot, Dot>>
             THEN Collapse(IF t[1] = <<>> THEN t[1]
                           ELSE SubSeq(t[1], 1, Len(t[1]) - 1), Tail(t[2]))
             ELSE Collapse(Append(t[1], Head(t[2])), Tail(t[2])))

RECURSIVE Glue(_)
\* The path string of a sequence of segments.
Glue(segs) ==
    Bind(segs, LAMBDA t :
        IF t = <<>> THEN <<>> ELSE <<Sep>> \o Head(t) \o Glue(Tail(t)))

\* path.normalize of an absolute path
normalize(p) ==
    Bind(Collapse(<<>>, Segments(p)),
         LAMBDA segs : IF segs = <<>> THEN <<Sep>> ELSE Glue(segs))

\* path.join(dir, s) for an absolute dir
join(dir, s) == normalize(dir \o <<Sep>> \o s)

HOME == <<Sep, "home">>

CWD == <<Sep, "cwd">>

\* path.resolve(s): s itself when absolute, else relative to the working directory
resolve(s) ==
    Bind(s, LAMBDA t : IF t # <<>> /\ t[1] \in Seps THEN normalize(t) ELSE join(CWD, t))

\* path.basename(p)
basename(p) ==
    Bind(Segments(p), LAMBDA segs : IF segs = <<>> THEN <<>> ELSE segs[Len(segs)])

\* path.extname(p): from the last dot of the base name, "" when there is no dot or
\* the only dot is the first character
extname(p) ==
    Bind(basename(p), LAMBDA b :
        Bind(LastIndexIn(b, {Dot}), LAMBDA k :
            IF k <= 1 THEN <<>> ELSE SubSeq(b, k, Len(b))))

\* path.basename(p, ext)
basenameExt(p, ext) ==
    Bind(<<basename(p), ext>>, LAMBDA t :
        IF t[2] # <<>> /\ t[1] # t[2] /\ endsWith(t[1], t[2])
        THEN SubSeq(t[1], 1, Len(t[1]) - Len(t[2]))
        ELSE t[1])

\* path.dirname of a normal absolute path
dirname(p) ==
    Bind(p, LAMBDA t :
        Bind(LastIndexIn(t, {Sep}), LAMBDA k :
            IF k <= 1 THEN <<Sep>> ELSE SubSeq(t, 1, k - 1)))

DOWNLOADS_DIR == join(HOME, <<"Downloads">>)

DOCUMENTS_DIR == join(HOME, <<"OneDrive", "\\", "Documents">>)


(***************************************************************************)
(* The filesystem: the set of directories and the regular files, each file *)
(* with its content and modification time.  Every path is absolute and in  *)
(* normal form, and the parent of every entry is a directory.              *)
(***************************************************************************)
VARIABLES
    dirs,       \* the directories
    files,      \* path -> [content, mtime] of the regular files
    pc,         \* per request: the filesystem call it waits for
    req,        \* per request: [tool, args] as received
    loc,        \* per request: the local variables of its handler
    result,     \* per request: the result handed to the transport
    served,     \* number of requests received so far
    quota,      \* number of requests the transport delivers in this run
    concurrent, \* whether the transport delivers a request while another runs
    fs0,        \* per request: the filesystem when the request arrived
    prev,       \* the request completed just before, when it was create_directory
    locked      \* the files the platform refuses to rename (in use elsewhere)

vars == <<dirs, files, pc, req, loc, result, served, quota, concurrent, fs0, prev,
          locked>>

Slots == {1, 2}

\* Modification time given to a file written during the run (later than every
\* file of the initial filesystem).
Now == 9

Exists(fd, ff, p) == p \in fd \/ p \in DOMAIN ff

\* The path and every ancestor of it, the root excluded.
RECURSIVE Ancestors(_)
Ancestors(p) ==
    Bind(p, LAMBDA t :
        IF t = <<Sep>> \/ t = <<>> THEN {} ELSE {t} \cup Ancestors(dirname(t)))

\* The immediate entries of a directory.
Children(fd, ff, d) ==
    {p \in (fd \cup DOMAIN ff) : p # d /\ p # <<Sep>> /\ dirname(p) = d}

\* Every entry at or below p.
Subtree(fd, ff, p) ==
    {q \in (fd \cup DOMAIN ff) : q = p \/ startsWith(q, p \o <<Sep>>)}

\* fs.access(p): "ok" when the path exists
access(fd, ff, p) == IF Exists(fd, ff, p) THEN "ok" ELSE "ENOENT"

\* fs.mkdir(p, {recursive: true})
mkdirError(fd, ff, p) ==
    IF \E q \in Ancestors(p) : q \in DOMAIN ff
    THEN (IF p \in DOMAIN ff THEN "EEXIST" ELSE "ENOTDIR")
    ELSE "ok"

mkdirDirs(fd, p) == fd \cup Ancestors(p)

\* A rename that refuses to replace an existing destination.
renameErrorExclusive(fd, ff, src, dst) ==
    IF ~Exists(fd, ff, src) THEN "ENOENT"
    ELSE IF dirname(dst) \notin fd THEN "ENOENT"
    ELSE IF Exists(fd, ff, dst) THEN "EEXIST"
    ELSE "ok"

\* fs.rename(src, dst): the error, or "ok"
renameError(fd, ff, src, dst) ==
    IF ~Exists(fd, ff, src) THEN "ENOENT"
    ELSE IF src \in locked THEN "EPERM"
    ELSE IF dirname(dst) \notin fd THEN
        (IF \E q \in Ancestors(dst) : q \in DOMAIN ff THEN "ENOTDIR" ELSE "ENOENT")
    ELSE IF src \in DOMAIN ff THEN
        (IF dst \in fd THEN "EISDIR" ELSE "ok")
    ELSE IF dst \in DOMAIN ff THEN "ENOTDIR"
    ELSE IF dst # src /\ startsWith(dst, src \o <<Sep>>) THEN "EINVAL"
    ELSE IF dst # src /\ dst \in fd /\ Children(fd, ff, dst) # {} THEN "ENOTEMPTY"
    ELSE "ok"

\* The path of q after its ancestor src became dst.
Rebase(q, src, dst) == dst \o SubSeq(q, Len(src) + 1, Len(q))

\* A rename that leaves the source in place.
renameFilesKeepsSource(fd, ff, src, dst) ==
    IF src = dst \/ src \notin DOMAIN ff THEN ff
    ELSE [q \in (DOMAIN ff) \cup {dst} |-> IF q = dst THEN ff[src] ELSE ff[q]]

\* The files after a successful rename: a file replaces whatever file is at dst,
\* a directory moves with everything below it.
renameFiles(fd, ff, src, dst) ==
    IF src = dst THEN ff
    ELSE IF src \in DOMAIN ff
    THEN [q \in ((DOMAIN ff) \ {src}) \cup {dst} |->
            IF q = dst THEN ff[src] ELSE ff[q]]
    ELSE LET moved == {q \in DOMAIN ff : startsWith(q, src \o <<Sep>>)}
             kept == (DOMAIN ff) \ moved
         IN [q \in kept \cup {Rebase(m, src, dst) : m \in moved} |->
                IF q \in kept THEN ff[q]
                ELSE ff[CHOOSE m \in moved : Rebase(m, src, dst) = q]]

renameDirs(fd, ff, src, dst) ==
    IF src = dst \/ src \in DOMAIN ff THEN fd
    ELSE LET moved == {q \in fd : q = src \/ startsWith(q, src \o <<Sep>>)}
         IN (fd \ moved) \cup {Rebase(m, src, dst) : m \in moved}

\* fs.copyFile(src, dst)
copyError(fd, ff, src, dst) ==
    IF ~Exists(fd, ff, src) THEN "ENOENT"
    ELSE IF src \in fd THEN "EISDIR"
    ELSE IF dirname(dst) \notin fd THEN "ENOENT"
    ELSE IF dst \in fd THEN "EISDIR"
    ELSE "ok"

copyFiles(ff, src, dst) ==
    IF src = dst THEN ff
    ELSE [q \in (DOMAIN ff) \cup {dst} |->
            IF q = dst THEN [content |-> ff[src].content, mtime |-> Now]
            ELSE ff[q]]

\* Every order in which fs.readdir may return the entries of a directory.
Orderings(S) ==
    {s \in [1..Cardinality(S) -> S] : \A i, j \in DOMAIN s : i # j => s[i] # s[j]}


(***************************************************************************)
(* Requests.  An optional argument is <<>> when absent and <<v>> when       *)
(* present; args.bag is FALSE when the request carries no argument bag at  *)
(* all (request.params.arguments is undefined).                            *)
(***************************************************************************)
Absent == <<>>

Some(v) == <<v>>

\* JavaScript truthiness of an optional string: present and not empty.
Truthy(o) == o # Absent /\ o[1] # <<>>

NoArgs ==
    [bag |-> TRUE, filename |-> Absent, destination_folder |-> Absent,
     source |-> Absent, name |-> Absent, location |-> Absent,
     destination |-> Absent, subfolder |-> Absent, directory |-> Absent,
     file_type |-> Absent, limit |-> Absent]

NoBag == [NoArgs EXCEPT !.bag = FALSE]

NoRequest == [tool |-> "", args |-> NoArgs]

NoResult == [isError |-> FALSE, text |-> <<>>, path |-> <<>>, list |-> <<>>, total |-> 0]

NoPrev == [tool |-> "", args |-> NoArgs, result |-> NoResult]

InitLoc ==
    [sourceDir |-> <<>>, sourceFile |-> <<>>, destDir |-> <<>>,
     finalDestPath |-> <<>>, counter |-> 0, name |-> <<>>, ext |-> <<>>,
     stack |-> <<>>, pending |-> <<>>, found |-> <<>>, i |-> 0,
     mtimes |-> <<>>, moved |-> <<>>, zipPath |-> <<>>, extractPath |-> <<>>,
     entries |-> <<>>, details |-> <<>>]

NoFs == [dirs |-> {}, files |-> <<>>]

\* A successful result: the text, the path it names, the names it lists.
Ok(message, path, list, total) ==
    [isError |-> FALSE, text |-> <<"", message>>, path |-> path,
     list |-> list, total |-> total]

\* The catch clause without the error marker.
CaughtResultUnmarked(message, path) ==
    [isError |-> FALSE, text |-> <<"Error: ", message>>, path |-> path,
     list |-> <<>>, total |-> 0]

\* The catch clause of the tool-call handler: whatever a handler throws becomes a
\* result with the error marker.
CaughtResult(message, path) ==
    [isError |-> TRUE, text |-> <<"Error: ", message>>, path |-> path,
     list |-> <<>>, total |-> 0]

\* The handler of request r returns res.
Returns(r, res) ==
    /\ pc' = [pc EXCEPT ![r] = "done"]
    /\ result' = [result EXCEPT ![r] = res]
    /\ loc' = [loc EXCEPT ![r] = InitLoc]

\* The handler of request r throws; the tool-call handler catches it.
Throws(r, message, path) == Returns(r, CaughtResult(message, path))

\* The handler of request r goes on to its next filesystem call.
Goto(r, label, l) ==
    /\ pc' = [pc EXCEPT ![r] = label]
    /\ loc' = [loc EXCEPT ![r] = l]
    /\ UNCHANGED result

\* The message of reading a property of an undefined argument bag.
TypeErrorReading(field) ==
    "Cannot read properties of undefined (reading '" \o field \o "')"

\* The message of a missing required argument.
Required(field) == field \o " is required"

(***************************************************************************)
(* The initial filesystem: the two roots and the working directory, and up *)
(* to MaxFiles of the candidate files.                                     *)
(***************************************************************************)
MaxFiles == 3

MaxSeqFiles == 1

MaxConcFiles == 2

MaxCollisions == 3

MaxListFiles == 5

MaxMultiFiles == 3

MaxFreshFiles == 2

MaxLocked == 1

sA == <<"a", ".", "svg">>
sB == <<"B", ".", "SVG">>
sReport == <<"report", ".", "pdf">>
sReport1 == <<"report", "_", "1", ".", "pdf">>
sPack == <<"pack", ".", "zip">>

\* report.pdf for k = 0, report_k.pdf for k >= 1
NumberedReport(k) ==
    IF k = 0 THEN sReport ELSE <<"report", "_", ToString(k), ".", "pdf">>
sSub == <<"sub">>
sIcons == <<"Icons">>
sInbox == <<"inbox">>
sNowhere == <<"nowhere">>
sProjects == <<"Projects">>
sDocumentsSub == <<"documents", "/", "sub">>

CandidateFiles ==
    { [path |-> join(DOWNLOADS_DIR, sA), content |-> 1, mtime |-> 1],
      [path |-> join(join(DOWNLOADS_DIR, sSub), sA), content |-> 2, mtime |-> 2],
      [path |-> join(join(DOWNLOADS_DIR, sSub), sB), content |-> 3, mtime |-> 2],
      [path |-> join(DOWNLOADS_DIR, sReport), content |-> 4, mtime |-> 1],
      [path |-> join(DOCUMENTS_DIR, sReport), content |-> 5, mtime |-> 1],
      [path |-> join(DOCUMENTS_DIR, sReport1), content |-> 6, mtime |-> 1],
      [path |-> join(join(DOCUMENTS_DIR, sIcons), sA), content |-> 7, mtime |-> 2],
      [path |-> join(DOWNLOADS_DIR, sPack), content |-> 8, mtime |-> 1],
      [path |-> join(DOWNLOADS_DIR, sPack), content |-> 9, mtime |-> 1] }

BaseDirs == Ancestors(DOWNLOADS_DIR) \cup Ancestors(DOCUMENTS_DIR) \cup Ancestors(CWD)

InitFs(S) ==
    /\ dirs = BaseDirs \cup UNION {Ancestors(dirname(c.path)) : c \in S}
    /\ files = [p \in {c.path : c \in S} |->
                   LET c == CHOOSE c \in S : c.path = p
                   IN [content |-> c.content, mtime |-> c.mtime]]

InitRequests ==
    /\ pc = [r \in Slots |-> "idle"]
    /\ req = [r \in Slots |-> NoRequest]
    /\ loc = [r \in Slots |-> InitLoc]
    /\ result = [r \in Slots |-> NoResult]
    /\ fs0 = [r \in Slots |-> NoFs]
    /\ served = 0
    /\ prev = NoPrev

\* The candidate sets of at most n files, no two at the same path.
FileSets(n) ==
    {S \in SUBSET CandidateFiles :
        /\ Cardinality(S) <= n
        /\ \A c, d \in S : c.path = d.path => c = d}

\* One request, on any filesystem of up to MaxFiles files.
Init ==
    /\ \E S \in FileSets(MaxFiles) : InitFs(S)
    /\ InitRequests
    /\ quota = 1
    /\ concurrent = FALSE
    /\ locked = {}

\* The source file report.pdf and any of report.pdf, report_1.pdf, ...,
\* report_<MaxCollisions>.pdf in the documents root; one request.
InitNamer ==
    /\ \E K \in SUBSET (0..MaxCollisions) :
          /\ dirs = BaseDirs
          /\ files = [p \in {join(DOWNLOADS_DIR, sReport)}
                            \cup {join(DOCUMENTS_DIR, NumberedReport(k)) : k \in K} |->
                         IF p = join(DOWNLOADS_DIR, sReport)
                         THEN [content |-> 4, mtime |-> 1]
                         ELSE [content |-> 5, mtime |-> 1]]
    /\ InitRequests
    /\ quota = 1
    /\ concurrent = FALSE
    /\ locked = {}

\* Two requests in flight together, on a filesystem of up to MaxConcFiles files.
InitConc ==
    /\ \E S \in FileSets(MaxConcFiles) : InitFs(S)
    /\ InitRequests
    /\ quota = NumRequests
    /\ concurrent = TRUE
    /\ locked = {}

\* NumRequests requests one after the other, on a filesystem of up to
\* MaxSeqFiles files.
InitSeq ==
    /\ \E S \in FileSets(MaxSeqFiles) : InitFs(S)
    /\ InitRequests
    /\ quota = NumRequests
    /\ concurrent = FALSE
    /\ locked = {}

\* The files of the runs that list a directory: files of Downloads with
\* modification times that differ, but for two of them, and one file in a
\* subdirectory.
ListCandidates ==
    { [path |-> join(DOWNLOADS_DIR, sA), content |-> 1, mtime |-> 1],
      [path |-> join(DOWNLOADS_DIR, sB), content |-> 3, mtime |-> 2],
      [path |-> join(DOWNLOADS_DIR, <<"c", ".", "svg">>), content |-> 2, mtime |-> 3],
      [path |-> join(DOWNLOADS_DIR, sReport), content |-> 4, mtime |-> 4],
      [path |-> join(DOWNLOADS_DIR, <<"d", ".", "svg">>), content |-> 7, mtime |-> 5],
      [path |-> join(DOWNLOADS_DIR, <<"e", ".", "svg">>), content |-> 5, mtime |-> 5],
      [path |-> join(join(DOWNLOADS_DIR, sSub), sA), content |-> 6, mtime |-> 6] }

\* One request, on a Downloads directory of up to MaxListFiles files.
InitList ==
    /\ \E S \in {T \in SUBSET ListCandidates : Cardinality(T) <= MaxListFiles} : InitFs(S)
    /\ InitRequests
    /\ quota = 1
    /\ concurrent = FALSE
    /\ locked = {}

\* The files that may be in use elsewhere when a request moves several files.
LockCandidates ==
    {join(DOWNLOADS_DIR, sA), join(join(DOWNLOADS_DIR, sSub), sA),
     join(join(DOWNLOADS_DIR, sSub), sB),
     join(join(DOWNLOADS_DIR, <<"pack">>), sA),
     join(join(join(DOWNLOADS_DIR, <<"pack">>), sSub), sA)}

\* One request, on a filesystem of up to MaxMultiFiles files, up to MaxLocked of
\* the files it may come to move being in use elsewhere.
InitMulti ==
    /\ \E S \in FileSets(MaxMultiFiles) : InitFs(S)
    /\ InitRequests
    /\ quota = 1
    /\ concurrent = FALSE
    /\ locked \in {K \in SUBSET LockCandidates : Cardinality(K) <= MaxLocked}

\* One request, on a machine whose documents root has not been created yet: up
\* to MaxFreshFiles files, all below Downloads.
InitFresh ==
    /\ \E S \in {T \in FileSets(MaxFreshFiles) :
                    \A c \in T : startsWith(c.path, DOWNLOADS_DIR \o <<Sep>>)} :
          /\ dirs = Ancestors(DOWNLOADS_DIR) \cup Ancestors(CWD)
                      \cup UNION {Ancestors(dirname(c.path)) : c \in S}
          /\ files = [q \in {c.path : c \in S} |->
                         LET c == CHOOSE c \in S : c.path = q
                         IN [content |-> c.content, mtime |-> c.mtime]]
    /\ InitRequests
    /\ quota = 1
    /\ concurrent = FALSE
    /\ locked = {}

\* The files of the runs that are followed to their end: SVG files at two
\* depths of Downloads, one of their names taken in Documents/Icons, and an
\* archive.
LiveFiles ==
    {c \in CandidateFiles :
        \/ c.path \in {join(DOWNLOADS_DIR, sA), join(join(DOWNLOADS_DIR, sSub), sA),
                        join(join(DOWNLOADS_DIR, sSub), sB),
                        join(join(DOCUMENTS_DIR, sIcons), sA)}
        \/ c.content = 8}

InitLive ==
    /\ \E S \in SUBSET LiveFiles : InitFs(S)
    /\ InitRequests
    /\ quota = 1
    /\ concurrent = FALSE
    /\ locked = {}

\* The files of the runs that collect SVG files of one name: a.svg at two
\* depths of Downloads, in the documents root and in Documents/Icons, and an
\* archive that holds a.svg at two depths.
CollectFiles ==
    {c \in CandidateFiles :
        \/ c.path \in {join(DOWNLOADS_DIR, sA), join(join(DOWNLOADS_DIR, sSub), sA),
                        join(join(DOCUMENTS_DIR, sIcons), sA)}
        \/ c.content = 8}
    \cup {[path |-> join(DOCUMENTS_DIR, sA), content |-> 10, mtime |-> 1]}

\* One request, on any filesystem of these files.
InitCollect ==
    /\ \E S \in SUBSET CollectFiles : InitFs(S)
    /\ InitRequests
    /\ quota = 1
    /\ concurrent = FALSE
    /\ locked = {}

\* The calls of the runs in which two requests are in flight together.
ConcurrentCalls ==
    {[tool |-> t, args |-> [NoArgs EXCEPT !.filename = Some(f)]] :
        t \in {"copy_file", "move_file"}, f \in {sA, sSub \o <<Sep>> \o sA}}
    \cup {[tool |-> "create_directory", args |-> [NoArgs EXCEPT !.name = Some(n)]] :
            n \in {sProjects, sProjects \o <<Sep>> \o sSub}}

\* A request arrives in slot r: the slot is free and, unless the transport
\* delivers concurrently, no other request is running.
Arrives(r, tool, args) ==
    /\ pc[r] = "idle"
    /\ served < quota
    /\ IF concurrent THEN [tool |-> tool, args |-> args] \in ConcurrentCalls
       ELSE r = 1 /\ \A q \in Slots : pc[q] = "idle"
    /\ served' = served + 1
    /\ req' = [req EXCEPT ![r] = [tool |-> tool, args |-> args]]
    /\ fs0' = [fs0 EXCEPT ![r] = [dirs |-> dirs, files |-> files]]
    /\ UNCHANGED <<dirs, files, quota, concurrent, prev, locked>>

\* The transport takes the result of request r; the slot is free again.
Respond(r) ==
    /\ pc[r] = "done"
    /\ pc' = [pc EXCEPT ![r] = "idle"]
    /\ prev' = IF req[r].tool = "create_directory"
               THEN [tool |-> req[r].tool, args |-> req[r].args, result |-> result[r]]
               ELSE NoPrev
    /\ req' = [req EXCEPT ![r] = NoRequest]
    /\ result' = [result EXCEPT ![r] = NoResult]
    /\ fs0' = [fs0 EXCEPT ![r] = NoFs]
    /\ UNCHANGED <<dirs, files, loc, served, quota, concurrent, locked>>

\* A step of request r that leaves the filesystem as it is.
ReadOnly == UNCHANGED <<dirs, files>>

Frame == UNCHANGED <<req, served, quota, concurrent, fs0, prev, locked>>

(***************************************************************************)
(* create_directory                                                        *)
(***************************************************************************)
CreateDirectoryArgs ==
    {NoBag} \cup
    {[NoArgs EXCEPT !.name = n, !.location = l] :
        n \in {Absent, Some(<<>>), Some(sProjects), Some(sProjects \o <<Sep>> \o sSub),
               Some(sReport \o <<Sep>> \o sSub)},
        l \in {Absent, Some(<<"Downloads">>), Some(sInbox), Some(sDocumentsSub)}}

\* Location token of create_directory, copy_file and move_file: the token is
\* lower-cased first, then matched, then resolved as a path.
locationDir(token) ==
    IF token = <<"documents">> THEN DOCUMENTS_DIR
    ELSE IF token = <<"downloads">> THEN DOWNLOADS_DIR
    ELSE resolve(token)

\* The directory create_directory is asked for.
newDirOf(args) ==
    LET location == toLowerCase(IF Truthy(args.location) THEN args.location[1]
                                ELSE <<"documents">>)
    IN join(locationDir(location), args.name[1])

handleCreateDirectory(r) ==
    \E args \in CreateDirectoryArgs :
        /\ Arrives(r, "create_directory", args)
        /\ IF ~args.bag THEN Throws(r, TypeErrorReading("name"), <<>>)
           ELSE IF ~Truthy(args.name) THEN Throws(r, Required("name"), <<>>)
           ELSE Goto(r, "cd_access", [InitLoc EXCEPT !.destDir = newDirOf(args)])

\* create_directory without the look at the path: mkdir is always called.
CreateDirectoryNoAccess(r) ==
    /\ pc[r] = "cd_access"
    /\ Goto(r, "cd_mkdir", loc[r])
    /\ ReadOnly /\ Frame

\* fs.access(newDir): an existing path ends the request.
CreateDirectoryAccess(r) ==
    /\ pc[r] = "cd_access"
    /\ IF access(dirs, files, loc[r].destDir) = "ok"
       THEN Returns(r, Ok("Directory already exists", loc[r].destDir, <<>>, 0))
       ELSE Goto(r, "cd_mkdir", loc[r])
    /\ ReadOnly /\ Frame

\* fs.mkdir(newDir, {recursive: true})
CreateDirectoryMkdir(r) ==
    /\ pc[r] = "cd_mkdir"
    /\ LET e == mkdirError(dirs, files, loc[r].destDir)
       IN IF e # "ok"
          THEN Throws(r, e, loc[r].destDir) /\ UNCHANGED dirs
          ELSE /\ dirs' = mkdirDirs(dirs, loc[r].destDir)
               /\ Returns(r, Ok("Successfully created directory", loc[r].destDir, <<>>, 0))
    /\ UNCHANGED files /\ Frame

(***************************************************************************)
(* findFiles: the recursive walk.  loc.pending is the directory whose      *)
(* entries are read next, loc.stack the entries still to visit in each     *)
(* directory above it, loc.found the matches so far.                       *)
(***************************************************************************)
RECURSIVE DrainCaseSensitive(_, _, _)
\* The loop of walk() with the entry name compared as it is, not lower-cased.
DrainCaseSensitive(stack, found, extension) ==
    Bind(<<stack, found, extension>>, LAMBDA t :
        IF t[1] = <<>>
        THEN [stack |-> <<>>, found |-> t[2], pending |-> <<>>, done |-> TRUE]
        ELSE LET n == Len(t[1])
                 top == t[1][n]
             IN IF top = <<>>
                THEN DrainCaseSensitive(SubSeq(t[1], 1, n - 1), t[2], t[3])
                ELSE LET entry == Head(top)
                         rest == [t[1] EXCEPT ![n] = Tail(top)]
                     IN IF entry.kind = "dir"
                        THEN [stack |-> rest, found |-> t[2],
                              pending |-> entry.path, done |-> FALSE]
                        ELSE IF entry.kind = "file"
                                /\ endsWith(basename(entry.path), t[3])
                             THEN DrainCaseSensitive(rest, Append(t[2], entry.path), t[3])
                             ELSE DrainCaseSensitive(rest, t[2], t[3]))

RECURSIVE Drain(_, _, _)
\* The loop of walk() over the entries read, up to the next directory to read.
Drain(stack, found, extension) ==
    Bind(<<stack, found, extension>>, LAMBDA t :
        IF t[1] = <<>>
        THEN [stack |-> <<>>, found |-> t[2], pending |-> <<>>, done |-> TRUE]
        ELSE LET n == Len(t[1])
                 top == t[1][n]
             IN IF top = <<>>
                THEN Drain(SubSeq(t[1], 1, n - 1), t[2], t[3])
                ELSE LET entry == Head(top)
                         rest == [t[1] EXCEPT ![n] = Tail(top)]
                     IN IF entry.kind = "dir"
                        THEN [stack |-> rest, found |-> t[2],
                              pending |-> entry.path, done |-> FALSE]
                        ELSE IF entry.kind = "file"
                                /\ endsWith(toLowerCase(basename(entry.path)), t[3])
                             THEN Drain(rest, Append(t[2], entry.path), t[3])
                             ELSE Drain(rest, t[2], t[3]))

\* The entries fs.readdir(d, {withFileTypes: true}) returns, in the order ord.
Dirents(ord) ==
    [k \in 1..Len(ord) |->
        [path |-> ord[k], kind |-> IF ord[k] \in dirs THEN "dir" ELSE "file"]]

\* The handler starts findFiles(dir, extension).
StartWalk(l, dir, extension) ==
    [l EXCEPT !.pending = dir, !.ext = extension, !.stack = <<>>, !.found = <<>>]

\* The first f of found with path.basename(f) === name, <<>> when there is none.
findMatch(found, name) ==
    LET hits == {k \in 1..Len(found) : basename(found[k]) = name}
    IN IF hits = {} THEN <<>>
       ELSE found[CHOOSE k \in hits : \A j \in hits : k <= j]

\* The naming loop with a counter that starts at 0.
StartNamingAtZero(l, name) ==
    [l EXCEPT !.name = name, !.finalDestPath = join(l.destDir, name), !.counter = 0]

\* The loop with its counter starting at 2: stem_1 is never tried.
StartNamingAtTwo(l, name) ==
    [l EXCEPT !.name = name, !.finalDestPath = join(l.destDir, name), !.counter = 2]

\* The first candidate of the collision-naming loop for the file called name.
StartNaming(l, name) ==
    [l EXCEPT !.name = name, !.finalDestPath = join(l.destDir, name), !.counter = 1]

\* The reduce with ">=" in place of ">": among equal times the last one wins.
RECURSIVE reduceLatestLastWins(_, _, _)
reduceLatestLastWins(latest, k, mtimes) ==
    IF k > Len(mtimes) THEN latest
    ELSE reduceLatestLastWins(IF mtimes[k] >= mtimes[latest] THEN k ELSE latest,
                              k + 1, mtimes)

\* The reduce of move_latest_svg over the stat results, in the order of svgFiles.
RECURSIVE reduceLatest(_, _, _)
reduceLatest(latest, k, mtimes) ==
    IF k > Len(mtimes) THEN latest
    ELSE reduceLatest(IF mtimes[k] > mtimes[latest] THEN k ELSE latest, k + 1, mtimes)

\* path.relative(from, to) for a path to below the directory from.
relative(from, to) == SubSeq(to, Len(from) + 2, Len(to))

\* findFiles' callers, extract-and-collect treating an empty result as a failure.
AfterFindEmptyThrows(r, l, found) ==
    LET tool == req[r].tool
        args == req[r].args
    IN CASE tool \in {"copy_file", "move_file"} ->
              LET match == findMatch(found, args.filename[1])
              IN IF match # <<>>
                 THEN Goto(r, "mkdir_dest", [l EXCEPT !.sourceFile = match, !.found = <<>>])
                 ELSE Throws(r, "File not found", l.sourceDir)
         [] tool = "move_latest_svg" ->
              IF Len(found) = 0
              THEN Returns(r, Ok("No SVG files found", l.sourceDir, <<>>, 0))
              ELSE Goto(r, "stat", [l EXCEPT !.found = found, !.mtimes = <<>>])
         [] tool = "move_svg_files" ->
              IF Len(found) = 0
              THEN Returns(r, Ok("No SVG files found", l.sourceDir, <<>>, 0))
              ELSE Goto(r, "probe",
                        StartNaming([l EXCEPT !.found = found, !.i = 1,
                                              !.sourceFile = found[1]],
                                    basename(found[1])))
         [] tool = "unzip_and_move_svgs" ->
              IF Len(found) = 0
              THEN Throws(r, "No SVG files were found in the archive", l.extractPath)
              ELSE Goto(r, "mkdir_dest", [l EXCEPT !.found = found])
         [] tool = "list_svg_files" ->
              IF Len(found) = 0
              THEN Returns(r, Ok("No SVG files found", l.sourceDir, <<>>, 0))
              ELSE Returns(r, Ok("Found SVG file(s)", l.sourceDir,
                                 [k \in 1..Len(found) |-> relative(l.sourceDir, found[k])],
                                 Len(found)))

\* What the handler does with the result of findFiles.
AfterFind(r, l, found) ==
    LET tool == req[r].tool
        args == req[r].args
    IN CASE tool \in {"copy_file", "move_file"} ->
              LET match == findMatch(found, args.filename[1])
              IN IF match # <<>>
                 THEN Goto(r, "mkdir_dest", [l EXCEPT !.sourceFile = match, !.found = <<>>])
                 ELSE Throws(r, "File not found", l.sourceDir)
         [] tool = "move_latest_svg" ->
              IF Len(found) = 0
              THEN Returns(r, Ok("No SVG files found", l.sourceDir, <<>>, 0))
              ELSE Goto(r, "stat", [l EXCEPT !.found = found, !.mtimes = <<>>])
         [] tool = "move_svg_files" ->
              IF Len(found) = 0
              THEN Returns(r, Ok("No SVG files found", l.sourceDir, <<>>, 0))
              ELSE Goto(r, "probe",
                        StartNaming([l EXCEPT !.found = found, !.i = 1,
                                              !.sourceFile = found[1]],
                                    basename(found[1])))
         [] tool = "unzip_and_move_svgs" ->
              IF Len(found) = 0
              THEN Returns(r, Ok("Successfully unzipped, but no SVG files were found",
                                 l.extractPath, <<>>, Len(l.entries)))
              ELSE Goto(r, "mkdir_dest", [l EXCEPT !.found = found])
         [] tool = "list_svg_files" ->
              IF Len(found) = 0
              THEN Returns(r, Ok("No SVG files found", l.sourceDir, <<>>, 0))
              ELSE Returns(r, Ok("Found SVG file(s)", l.sourceDir,
                                 [k \in 1..Len(found) |-> relative(l.sourceDir, found[k])],
                                 Len(found)))

\* The walk with a readdir that reads a missing directory as an empty one.
WalkTolerant(r) ==
    /\ pc[r] = "walk"
    /\ LET d == loc[r].pending
       IN \E ord \in Orderings(IF d \in dirs THEN Children(dirs, files, d) ELSE {}) :
             \E w \in {Drain(Append(loc[r].stack, Dirents(ord)),
                              loc[r].found, loc[r].ext)} :
                IF w.done
                THEN AfterFind(r, [loc[r] EXCEPT !.stack = <<>>, !.pending = <<>>],
                               w.found)
                ELSE Goto(r, "walk", [loc[r] EXCEPT !.stack = w.stack,
                                                     !.found = w.found,
                                                     !.pending = w.pending])
    /\ ReadOnly /\ Frame

\* One fs.readdir of the walk and the loop over its entries.
Walk(r) ==
    /\ pc[r] = "walk"
    /\ LET d == loc[r].pending
       IN IF d \notin dirs
          THEN Throws(r, IF d \in DOMAIN files THEN "ENOTDIR" ELSE "ENOENT", d)
          ELSE \E ord \in Orderings(Children(dirs, files, d)) :
                  \E w \in {Drain(Append(loc[r].stack, Dirents(ord)),
                                   loc[r].found, loc[r].ext)} :
                     IF w.done
                     THEN AfterFind(r, [loc[r] EXCEPT !.stack = <<>>, !.pending = <<>>],
                                    w.found)
                     ELSE Goto(r, "walk", [loc[r] EXCEPT !.stack = w.stack,
                                                          !.found = w.found,
                                                          !.pending = w.pending])
    /\ ReadOnly /\ Frame

(***************************************************************************)
(* copy_file and move_file                                                 *)
(***************************************************************************)
FileArgs ==
    {NoBag} \cup
    {[NoArgs EXCEPT !.filename = f, !.source = s, !.destination_folder = d] :
        f \in {Absent, Some(<<>>), Some(sReport), Some(sA), Some(sB),
               Some(sSub \o <<Sep>> \o sA)},
        s \in {Absent, Some(<<"Documents">>), Some(sInbox), Some(sDocumentsSub)},
        d \in {Absent, Some(sIcons)}}

\* The source directory of copy_file and move_file.
fileSourceDir(args) ==
    LET sourceArg == toLowerCase(IF Truthy(args.source) THEN args.source[1]
                                 ELSE <<"downloads">>)
    IN IF sourceArg = <<"downloads">> THEN DOWNLOADS_DIR
       ELSE IF sourceArg = <<"documents">> THEN DOCUMENTS_DIR
       ELSE resolve(sourceArg)

\* The synchronous head of handleCopyFile and of handleMoveFile.
handleFile(r, tool, args) ==
    /\ Arrives(r, tool, args)
    /\ IF ~args.bag THEN Throws(r, TypeErrorReading("filename"), <<>>)
       ELSE IF ~Truthy(args.filename) THEN Throws(r, Required("filename"), <<>>)
       ELSE LET sourceDir == fileSourceDir(args)
            IN Goto(r, "access_src",
                    [InitLoc EXCEPT !.sourceDir = sourceDir,
                                    !.sourceFile = join(sourceDir, args.filename[1])])

handleCopyFile(r) == \E args \in FileArgs : handleFile(r, "copy_file", args)

handleMoveFile(r) == \E args \in FileArgs : handleFile(r, "move_file", args)

\* fs.access(sourceFile); when it fails, the recursive search for the file.
AccessSource(r) ==
    /\ pc[r] = "access_src"
    /\ IF access(dirs, files, loc[r].sourceFile) = "ok"
       THEN Goto(r, "mkdir_dest", loc[r])
       ELSE Goto(r, "walk",
                 StartWalk(loc[r], loc[r].sourceDir, extname(req[r].args.filename[1])))
    /\ ReadOnly /\ Frame

\* The destination directory of the request, as the handler computes it.
destinationDir(tool, args) ==
    IF Truthy(args.destination_folder)
    THEN join(DOCUMENTS_DIR, args.destination_folder[1])
    ELSE DOCUMENTS_DIR

\* fs.mkdir(destDir, {recursive: true}), then the first candidate path.
MkdirDest(r) ==
    /\ pc[r] = "mkdir_dest"
    /\ LET destDir == destinationDir(req[r].tool, req[r].args)
           e == mkdirError(dirs, files, destDir)
           l == [loc[r] EXCEPT !.destDir = destDir]
       IN IF e # "ok"
          THEN Throws(r, e, destDir) /\ UNCHANGED dirs
          ELSE /\ dirs' = mkdirDirs(dirs, destDir)
               /\ IF req[r].tool = "unzip_and_move_svgs"
                  THEN Goto(r, "probe",
                            StartNaming([l EXCEPT !.i = 1, !.sourceFile = l.found[1]],
                                        basename(l.found[1])))
                  ELSE Goto(r, "probe", StartNaming(l, basename(l.sourceFile)))
    /\ UNCHANGED files /\ Frame

\* The next candidate with the extension left in the base: base.ext_counter.ext
nextCandidateKeepsExt(destDir, name, counter) ==
    LET ext == extname(name)
        base == basename(name)
    IN join(destDir, base \o <<"_", ToString(counter)>> \o ext)

\* The next candidate of the collision-naming loop: base_counter.ext in destDir.
nextCandidate(destDir, name, counter) ==
    LET ext == extname(name)
        base == basenameExt(name, ext)
    IN join(destDir, base \o <<"_", ToString(counter)>> \o ext)

\* Probe as an "if" in place of the loop: the second candidate is not probed.
ProbeOnce(r) ==
    /\ pc[r] = "probe"
    /\ IF access(dirs, files, loc[r].finalDestPath) = "ok"
       THEN Goto(r, "write",
                 [loc[r] EXCEPT
                    !.finalDestPath = nextCandidate(loc[r].destDir, loc[r].name,
                                                    loc[r].counter),
                    !.counter = loc[r].counter + 1])
       ELSE Goto(r, "write", loc[r])
    /\ ReadOnly /\ Frame

\* The loop without a counter: after a collision the same path is tried again.
ProbeSameCandidate(r) ==
    /\ pc[r] = "probe"
    /\ IF access(dirs, files, loc[r].finalDestPath) = "ok"
       THEN Goto(r, "probe", loc[r])
       ELSE Goto(r, "write", loc[r])
    /\ ReadOnly /\ Frame

\* The loop with the file that is moved left out of the collisions: a file that
\* already has the desired path keeps it.
ProbeSkipsSelf(r) ==
    /\ pc[r] = "probe"
    /\ IF access(dirs, files, loc[r].finalDestPath) = "ok"
          /\ loc[r].finalDestPath # loc[r].sourceFile
       THEN Goto(r, "probe",
                 [loc[r] EXCEPT
                    !.finalDestPath = nextCandidate(loc[r].destDir, loc[r].name,
                                                    loc[r].counter),
                    !.counter = loc[r].counter + 1])
       ELSE Goto(r, "write", loc[r])
    /\ ReadOnly /\ Frame

\* One iteration of the collision-naming loop: fs.access(finalDestPath).
Probe(r) ==
    /\ pc[r] = "probe"
    /\ IF access(dirs, files, loc[r].finalDestPath) = "ok"
       THEN Goto(r, "probe",
                 [loc[r] EXCEPT
                    !.finalDestPath = nextCandidate(loc[r].destDir, loc[r].name,
                                                    loc[r].counter),
                    !.counter = loc[r].counter + 1])
       ELSE Goto(r, "write", loc[r])
    /\ ReadOnly /\ Frame

\* Whether the tool moves several files in one request.
MultiFile(tool) == tool \in {"move_svg_files", "unzip_and_move_svgs"}

\* The result of a request that has written its last file.
Written(r, l) ==
    LET tool == req[r].tool
    IN CASE tool = "copy_file" ->
              Ok("Successfully copied", l.finalDestPath, <<l.name>>, 1)
         [] tool = "move_file" ->
              Ok("Successfully moved", l.finalDestPath, <<req[r].args.filename[1]>>, 1)
         [] tool = "move_latest_svg" ->
              Ok("Successfully moved the latest SVG file", l.finalDestPath, <<l.name>>, 1)
         [] tool = "move_svg_files" ->
              Ok("Successfully moved SVG file(s)", l.destDir, l.moved, Len(l.moved))
         [] tool = "unzip_and_move_svgs" ->
              Ok("Success! Moved all SVGs", l.destDir, l.moved, Len(l.entries))

\* The loop over the files with a try around the rename: a file that cannot be
\* moved is skipped and the loop goes on.
WriteContinues(r) ==
    /\ pc[r] = "write"
    /\ LET l == loc[r]
           src == l.sourceFile
           dst == l.finalDestPath
           copy == req[r].tool = "copy_file"
           e == IF copy THEN copyError(dirs, files, src, dst)
                ELSE renameError(dirs, files, src, dst)
           m == IF e = "ok" THEN [l EXCEPT !.moved = Append(l.moved, basename(dst))] ELSE l
       IN /\ IF e # "ok" /\ ~(MultiFile(req[r].tool) /\ l.i < Len(l.found))
             THEN Throws(r, e, dst)
             ELSE IF MultiFile(req[r].tool) /\ l.i < Len(l.found)
             THEN Goto(r, "probe",
                       StartNaming([m EXCEPT !.i = l.i + 1,
                                             !.sourceFile = l.found[l.i + 1]],
                                   basename(l.found[l.i + 1])))
             ELSE Returns(r, Written(r, m))
          /\ files' = IF e # "ok" THEN files
                      ELSE IF copy THEN copyFiles(files, src, dst)
                      ELSE renameFiles(dirs, files, src, dst)
          /\ dirs' = IF e # "ok" \/ copy THEN dirs ELSE renameDirs(dirs, files, src, dst)
    /\ Frame

\* The loop over the files without the naming loop: every file is renamed to
\* its own name in the destination directory.
WriteUnprobed(r) ==
    /\ pc[r] = "write"
    /\ LET l == loc[r]
           src == l.sourceFile
           dst == l.finalDestPath
           copy == req[r].tool = "copy_file"
           e == IF copy THEN copyError(dirs, files, src, dst)
                ELSE renameError(dirs, files, src, dst)
           m == [l EXCEPT !.moved = Append(l.moved, basename(dst))]
       IN IF e # "ok"
          THEN Throws(r, e, dst) /\ UNCHANGED <<dirs, files>>
          ELSE /\ files' = IF copy THEN copyFiles(files, src, dst)
                           ELSE renameFiles(dirs, files, src, dst)
               /\ dirs' = IF copy THEN dirs ELSE renameDirs(dirs, files, src, dst)
               /\ IF MultiFile(req[r].tool) /\ l.i < Len(l.found)
                  THEN Goto(r, "write",
                            StartNaming([m EXCEPT !.i = l.i + 1,
                                                  !.sourceFile = l.found[l.i + 1]],
                                        basename(l.found[l.i + 1])))
                  ELSE Returns(r, Written(r, m))
    /\ Frame

\* The rename in a try that swallows its error: a file that is gone is
\* reported as moved.
WriteSwallows(r) ==
    /\ pc[r] = "write"
    /\ LET l == loc[r]
           src == l.sourceFile
           dst == l.finalDestPath
           copy == req[r].tool = "copy_file"
           e == IF copy THEN copyError(dirs, files, src, dst)
                ELSE renameError(dirs, files, src, dst)
           m == [l EXCEPT !.moved = Append(l.moved, basename(dst))]
       IN IF e # "ok"
          THEN Returns(r, Written(r, m)) /\ UNCHANGED <<dirs, files>>
          ELSE /\ files' = IF copy THEN copyFiles(files, src, dst)
                           ELSE renameFiles(dirs, files, src, dst)
               /\ dirs' = IF copy THEN dirs ELSE renameDirs(dirs, files, src, dst)
               /\ IF MultiFile(req[r].tool) /\ l.i < Len(l.found)
                  THEN Goto(r, "probe",
                            StartNaming([m EXCEPT !.i = l.i + 1,
                                                  !.sourceFile = l.found[l.i + 1]],
                                        basename(l.found[l.i + 1])))
                  ELSE Returns(r, Written(r, m))
    /\ Frame

\* fs.rename(source, finalDestPath) or fs.copyFile(source, finalDestPath), and
\* for the tools that move several files the step to the next file.
Write(r) ==
    /\ pc[r] = "write"
    /\ LET l == loc[r]
           src == l.sourceFile
           dst == l.finalDestPath
           copy == req[r].tool = "copy_file"
           e == IF copy THEN copyError(dirs, files, src, dst)
                ELSE renameError(dirs, files, src, dst)
           m == [l EXCEPT !.moved = Append(l.moved, basename(dst))]
       IN IF e # "ok"
          THEN Throws(r, e, dst) /\ UNCHANGED <<dirs, files>>
          ELSE /\ files' = IF copy THEN copyFiles(files, src, dst)
                           ELSE renameFiles(dirs, files, src, dst)
               /\ dirs' = IF copy THEN dirs ELSE renameDirs(dirs, files, src, dst)
               /\ IF MultiFile(req[r].tool) /\ l.i < Len(l.found)
                  THEN Goto(r, "probe",
                            StartNaming([m EXCEPT !.i = l.i + 1,
                                                  !.sourceFile = l.found[l.i + 1]],
                                        basename(l.found[l.i + 1])))
                  ELSE Returns(r, Written(r, m))
    /\ Frame

(***************************************************************************)
(* move_latest_svg, move_svg_files, list_svg_files                         *)
(***************************************************************************)
sSvgExt == <<".", "svg">>

MoveLatestSvgArgs ==
    {NoBag} \cup
    {[NoArgs EXCEPT !.destination_folder = d, !.source = s] :
        d \in {Absent, Some(<<>>), Some(sIcons)},
        s \in {Absent, Some(DOCUMENTS_DIR), Some(sNowhere), Some(<<"downloads">>)}}

handleMoveLatestSvg(r) ==
    \E args \in MoveLatestSvgArgs :
        /\ Arrives(r, "move_latest_svg", args)
        /\ IF ~args.bag THEN Throws(r, TypeErrorReading("destination_folder"), <<>>)
           ELSE IF ~Truthy(args.destination_folder)
           THEN Throws(r, Required("destination_folder"), <<>>)
           ELSE Goto(r, "access_dir",
                     [InitLoc EXCEPT !.sourceDir = IF Truthy(args.source)
                                                   THEN resolve(args.source[1])
                                                   ELSE DOWNLOADS_DIR])

MoveSvgArgs ==
    {NoBag} \cup
    {[NoArgs EXCEPT !.source = s, !.subfolder = d] :
        s \in {Absent, Some(DOCUMENTS_DIR), Some(sNowhere)},
        d \in {Absent, Some(sIcons)}}

handleMoveSvg(r) ==
    \E args \in MoveSvgArgs :
        /\ Arrives(r, "move_svg_files", args)
        /\ IF ~args.bag THEN Throws(r, TypeErrorReading("source"), <<>>)
           ELSE Goto(r, "access_dir",
                     [InitLoc EXCEPT !.sourceDir = IF Truthy(args.source)
                                                   THEN resolve(args.source[1])
                                                   ELSE DOWNLOADS_DIR])

ListSvgArgs ==
    {NoBag} \cup
    {[NoArgs EXCEPT !.directory = d] : d \in {Absent, Some(DOCUMENTS_DIR), Some(sNowhere),
                                              Some(<<"downloads">>)}}

handleListSvg(r) ==
    \E args \in ListSvgArgs :
        /\ Arrives(r, "list_svg_files", args)
        /\ IF ~args.bag THEN Throws(r, TypeErrorReading("directory"), <<>>)
           ELSE Goto(r, "access_dir",
                     [InitLoc EXCEPT !.sourceDir = IF Truthy(args.directory)
                                                   THEN resolve(args.directory[1])
                                                   ELSE DOWNLOADS_DIR])

\* The handlers without the look at the directory: a missing directory is not
\* noticed before the next filesystem call.
AccessDirUnchecked(r) ==
    /\ pc[r] = "access_dir"
    /\ LET tool == req[r].tool
           args == req[r].args
           l == loc[r]
       IN CASE tool = "move_svg_files" ->
                  IF Truthy(args.subfolder)
                  THEN Goto(r, "mkdir_sub",
                            [l EXCEPT !.destDir = join(DOCUMENTS_DIR, args.subfolder[1])])
                  ELSE Goto(r, "walk",
                            StartWalk([l EXCEPT !.destDir = DOCUMENTS_DIR],
                                      l.sourceDir, sSvgExt))
            [] tool = "list_files" -> Goto(r, "readdir", l)
            [] OTHER -> Goto(r, "walk", StartWalk(l, l.sourceDir, sSvgExt))
    /\ ReadOnly /\ Frame

\* The handlers with a directory that is made when it is missing, in place of
\* the error.
AccessDirCreates(r) ==
    /\ pc[r] = "access_dir"
    /\ LET tool == req[r].tool
           args == req[r].args
           l == loc[r]
           missing == access(dirs, files, l.sourceDir) # "ok"
       IN IF missing /\ mkdirError(dirs, files, l.sourceDir) # "ok"
          THEN Throws(r, "Directory not found", l.sourceDir) /\ UNCHANGED dirs
          ELSE /\ dirs' = IF missing THEN mkdirDirs(dirs, l.sourceDir) ELSE dirs
               /\ CASE tool = "move_svg_files" ->
                        IF Truthy(args.subfolder)
                        THEN Goto(r, "mkdir_sub",
                                  [l EXCEPT !.destDir = join(DOCUMENTS_DIR, args.subfolder[1])])
                        ELSE Goto(r, "walk",
                                  StartWalk([l EXCEPT !.destDir = DOCUMENTS_DIR],
                                            l.sourceDir, sSvgExt))
                    [] tool = "list_files" -> Goto(r, "readdir", l)
                    [] OTHER -> Goto(r, "walk", StartWalk(l, l.sourceDir, sSvgExt))
    /\ UNCHANGED files /\ Frame

\* fs.access of the directory a request searches or lists.
AccessDir(r) ==
    /\ pc[r] = "access_dir"
    /\ LET tool == req[r].tool
           args == req[r].args
           l == loc[r]
       IN IF access(dirs, files, l.sourceDir) # "ok"
          THEN Throws(r, IF tool \in {"move_latest_svg", "move_svg_files"}
                         THEN "Source directory not found"
                         ELSE "Directory not found", l.sourceDir)
          ELSE CASE tool = "move_svg_files" ->
                      IF Truthy(args.subfolder)
                      THEN Goto(r, "mkdir_sub",
                                [l EXCEPT !.destDir = join(DOCUMENTS_DIR, args.subfolder[1])])
                      ELSE Goto(r, "walk",
                                StartWalk([l EXCEPT !.destDir = DOCUMENTS_DIR],
                                          l.sourceDir, sSvgExt))
                 [] tool = "list_files" -> Goto(r, "readdir", l)
                 [] OTHER -> Goto(r, "walk", StartWalk(l, l.sourceDir, sSvgExt))
    /\ ReadOnly /\ Frame

\* move_svg_files: fs.mkdir of the subfolder, before the search.
MkdirSub(r) ==
    /\ pc[r] = "mkdir_sub"
    /\ LET e == mkdirError(dirs, files, loc[r].destDir)
       IN IF e # "ok"
          THEN Throws(r, e, loc[r].destDir) /\ UNCHANGED dirs
          ELSE /\ dirs' = mkdirDirs(dirs, loc[r].destDir)
               /\ Goto(r, "walk", StartWalk(loc[r], loc[r].sourceDir, sSvgExt))
    /\ UNCHANGED files /\ Frame

\* The insertion of a sort that is not stable: among equal times the later
\* element goes first.
RECURSIVE insertByModifiedUnstable(_, _)
insertByModifiedUnstable(sorted, d) ==
    Bind(<<sorted, d>>, LAMBDA t :
        IF t[1] = <<>> THEN <<t[2]>>
        ELSE IF t[2].modified >= Head(t[1]).modified THEN <<t[2]>> \o t[1]
        ELSE <<Head(t[1])>> \o insertByModifiedUnstable(Tail(t[1]), t[2]))

\* Array.prototype.sort((a, b) => b.modified - a.modified): stable, newest first.
RECURSIVE insertByModified(_, _)
insertByModified(sorted, d) ==
    Bind(<<sorted, d>>, LAMBDA t :
        IF t[1] = <<>> THEN <<t[2]>>
        ELSE IF t[2].modified > Head(t[1]).modified THEN <<t[2]>> \o t[1]
        ELSE <<Head(t[1])>> \o insertByModified(Tail(t[1]), t[2]))

RECURSIVE sortByModified(_)
sortByModified(details) ==
    Bind(details, LAMBDA t :
        IF t = <<>> THEN <<>>
        ELSE insertByModified(sortByModified(SubSeq(t, 1, Len(t) - 1)), t[Len(t)]))

\* Array.prototype.slice(0, limit) for a limit >= 0
sliceTo(seq, limit) == SubSeq(seq, 1, IF limit < Len(seq) THEN limit ELSE Len(seq))

DefaultZipLimit == 10

DefaultListLimit == 20

\* args?.limit || dflt
limitOf(args, dflt) ==
    IF args.bag /\ args.limit # Absent /\ args.limit[1] # 0 THEN args.limit[1] ELSE dflt

\* The result of list_zip_files once every archive has been stat'ed.
ZipListing(args, zipFiles, mtimes) ==
    LET fileDetails == [k \in 1..Len(zipFiles) |->
                           [name |-> basename(zipFiles[k]), modified |-> mtimes[k]]]
    IN Bind(sliceTo(sortByModified(fileDetails), limitOf(args, DefaultZipLimit)),
            LAMBDA limitedFiles :
               Ok("Found zip file(s) in Downloads", DOWNLOADS_DIR,
                  [k \in 1..Len(limitedFiles) |-> limitedFiles[k].name], Len(zipFiles)))

\* move_latest_svg and list_zip_files: one fs.stat of the Promise.all (the calls
\* are issued together and complete in any order); after the last one, the reduce
\* of move_latest_svg or the listing.
Stat(r) ==
    /\ pc[r] = "stat"
    /\ LET l == loc[r]
           n == Len(l.found)
           seen == IF l.mtimes = <<>> THEN [k \in 1..n |-> 0] ELSE l.mtimes
       IN \E k \in {j \in 1..n : seen[j] = 0} :
             IF l.found[k] \notin DOMAIN files /\ l.found[k] \notin dirs
             THEN Throws(r, "ENOENT", l.found[k])
             ELSE LET t == IF l.found[k] \in DOMAIN files
                           THEN files[l.found[k]].mtime ELSE Now
                      mt == [seen EXCEPT ![k] = t]
                  IN IF \E j \in 1..n : mt[j] = 0
                     THEN Goto(r, "stat", [l EXCEPT !.mtimes = mt])
                     ELSE IF req[r].tool = "list_zip_files"
                     THEN Returns(r, ZipListing(req[r].args, l.found, mt))
                     ELSE Goto(r, "mkdir_dest",
                               [l EXCEPT !.mtimes = <<>>, !.found = <<>>,
                                         !.sourceFile = l.found[reduceLatest(1, 2, mt)]])
    /\ ReadOnly /\ Frame

(***************************************************************************)
(* The archive library (an external collaborator): what an archive holds   *)
(* is a function of the content of the file.                               *)
(***************************************************************************)
sPng == <<"c", ".", "png">>

\* The entries of the archive with this content; <<>> with valid FALSE when the
\* file is no archive.
ZipEntries(content) ==
    CASE content = 8 ->
           [valid |-> TRUE,
            entries |-> << [name |-> sA, content |-> 81, mtime |-> 1],
                           [name |-> sSub \o <<Sep>> \o sA, content |-> 82, mtime |-> 2],
                           [name |-> sPng, content |-> 83, mtime |-> 1] >>]
      [] content = 9 ->
           [valid |-> TRUE,
            entries |-> << [name |-> sPng, content |-> 83, mtime |-> 1] >>]
      [] OTHER -> [valid |-> FALSE, entries |-> <<>>]

\* new AdmZip(zipPath): reads the file; throws when it is no archive.
OpenZip(zipPath) ==
    IF zipPath \in DOMAIN files THEN ZipEntries(files[zipPath].content)
    ELSE [valid |-> FALSE, entries |-> <<>>]

\* zip.extractAllTo(extractPath, true): whether it fails, and what it writes.
ExtractTargets(extractPath, entries) ==
    {join(extractPath, entries[k].name) : k \in 1..Len(entries)}

extractError(fd, ff, extractPath, entries) ==
    \E t \in ExtractTargets(extractPath, entries) :
        \/ t \in fd
        \/ \E q \in Ancestors(dirname(t)) : q \in DOMAIN ff

extractFiles(ff, extractPath, entries) ==
    LET T == ExtractTargets(extractPath, entries)
    IN [q \in (DOMAIN ff) \cup T |->
          IF q \in T
          THEN LET e == entries[CHOOSE k \in 1..Len(entries) :
                                    join(extractPath, entries[k].name) = q]
               IN [content |-> e.content, mtime |-> e.mtime]
          ELSE ff[q]]

extractDirs(fd, extractPath, entries) ==
    fd \cup UNION {Ancestors(dirname(t)) : t \in ExtractTargets(extractPath, entries)}

(***************************************************************************)
(* unzip_file and unzip_and_move_svgs                                      *)
(***************************************************************************)
sZipExt == <<".", "zip">>

UnzipArgs ==
    {NoBag} \cup
    {[NoArgs EXCEPT !.filename = f, !.destination = d] :
        f \in {Absent, Some(<<>>), Some(sPack), Some(sA), Some(sReport)},
        d \in {Absent, Some(<<"Documents">>), Some(sInbox), Some(sDocumentsSub)}}

handleUnzip(r) ==
    \E args \in UnzipArgs :
        /\ Arrives(r, "unzip_file", args)
        /\ IF ~args.bag THEN Throws(r, TypeErrorReading("filename"), <<>>)
           ELSE IF ~Truthy(args.filename) THEN Throws(r, Required("filename"), <<>>)
           ELSE Goto(r, "access_zip",
                     [InitLoc EXCEPT !.zipPath = join(DOWNLOADS_DIR, args.filename[1])])

UnzipAndMoveArgs ==
    {NoBag} \cup
    {[NoArgs EXCEPT !.filename = f, !.destination_folder = d] :
        f \in {Absent, Some(sPack), Some(sA)},
        d \in {Absent, Some(<<>>), Some(sIcons)}}

\* unzip_and_move_svgs without the check of destination_folder.
handleUnzipAndMoveSvgsUnchecked(r) ==
    \E args \in UnzipAndMoveArgs :
        /\ Arrives(r, "unzip_and_move_svgs", args)
        /\ IF ~args.bag THEN Throws(r, TypeErrorReading("filename"), <<>>)
           ELSE IF ~Truthy(args.filename) THEN Throws(r, Required("filename"), <<>>)
           ELSE Goto(r, "access_zip",
                     [InitLoc EXCEPT !.zipPath = join(DOWNLOADS_DIR, args.filename[1])])

handleUnzipAndMoveSvgs(r) ==
    \E args \in UnzipAndMoveArgs :
        /\ Arrives(r, "unzip_and_move_svgs", args)
        /\ IF ~args.bag THEN Throws(r, TypeErrorReading("filename"), <<>>)
           ELSE IF ~Truthy(args.filename) THEN Throws(r, Required("filename"), <<>>)
           ELSE IF ~Truthy(args.destination_folder)
           THEN Throws(r, Required("destination_folder"), <<>>)
           ELSE Goto(r, "access_zip",
                     [InitLoc EXCEPT !.zipPath = join(DOWNLOADS_DIR, args.filename[1])])

\* fs.access(zipPath)
AccessZip(r) ==
    /\ pc[r] = "access_zip"
    /\ IF access(dirs, files, loc[r].zipPath) # "ok"
       THEN Throws(r, "Zip file not found", loc[r].zipPath)
       ELSE Goto(r, "open_zip", loc[r])
    /\ ReadOnly /\ Frame

\* The destination of unzip_file with the keywords compared as they were typed.
unzipDestDirCaseSensitive(args) ==
    IF ~Truthy(args.destination) THEN DOWNLOADS_DIR
    ELSE LET dest == args.destination[1]
         IN IF dest = <<"downloads">> THEN DOWNLOADS_DIR
            ELSE IF dest = <<"documents">> THEN DOCUMENTS_DIR
            ELSE resolve(args.destination[1])

\* The destination of unzip_file: only the two keywords are recognised.
unzipDestDir(args) ==
    IF ~Truthy(args.destination) THEN DOWNLOADS_DIR
    ELSE LET dest == toLowerCase(args.destination[1])
         IN IF dest = <<"downloads">> THEN DOWNLOADS_DIR
            ELSE IF dest = <<"documents">> THEN DOCUMENTS_DIR
            ELSE resolve(args.destination[1])

\* new AdmZip(zipPath) and the extraction path.
OpenArchive(r) ==
    /\ pc[r] = "open_zip"
    /\ LET args == req[r].args
           zip == OpenZip(loc[r].zipPath)
           destDir == IF req[r].tool = "unzip_file" THEN unzipDestDir(args)
                      ELSE DOWNLOADS_DIR
           extractPath == join(destDir, basenameExt(args.filename[1], sZipExt))
       IN IF ~zip.valid
          THEN Throws(r, "Invalid or unsupported zip format", loc[r].zipPath)
          ELSE Goto(r, "mkdir_extract",
                    [loc[r] EXCEPT !.entries = zip.entries, !.extractPath = extractPath])
    /\ ReadOnly /\ Frame

\* fs.mkdir(extractPath, {recursive: true})
MkdirExtract(r) ==
    /\ pc[r] = "mkdir_extract"
    /\ LET e == mkdirError(dirs, files, loc[r].extractPath)
       IN IF e # "ok"
          THEN Throws(r, e, loc[r].extractPath) /\ UNCHANGED dirs
          ELSE /\ dirs' = mkdirDirs(dirs, loc[r].extractPath)
               /\ Goto(r, "extract", loc[r])
    /\ UNCHANGED files /\ Frame

\* zip.extractAllTo(extractPath, true)
Extract(r) ==
    /\ pc[r] = "extract"
    /\ LET l == loc[r]
       IN IF extractError(dirs, files, l.extractPath, l.entries)
          THEN Throws(r, "Unable to write extracted file", l.extractPath)
               /\ UNCHANGED <<dirs, files>>
          ELSE /\ files' = extractFiles(files, l.extractPath, l.entries)
               /\ dirs' = extractDirs(dirs, l.extractPath, l.entries)
               /\ IF req[r].tool = "unzip_file"
                  THEN Returns(r, Ok("Successfully unzipped", l.extractPath,
                                     [k \in 1..Len(l.entries) |-> l.entries[k].name],
                                     Len(l.entries)))
                  ELSE Goto(r, "walk", StartWalk(l, l.extractPath, sSvgExt))
    /\ Frame

(***************************************************************************)
(* list_zip_files and list_files                                           *)
(***************************************************************************)
ListZipArgs == {NoBag, NoArgs, [NoArgs EXCEPT !.limit = Some(1)]}

handleListZip(r) ==
    \E args \in ListZipArgs :
        /\ Arrives(r, "list_zip_files", args)
        /\ Goto(r, "zip_readdir", InitLoc)

\* The elements of seq that satisfy Keep, in order.
RECURSIVE SelectPaths(_, _)
SelectPaths(seq, keep) ==
    IF seq = <<>> THEN <<>>
    ELSE (IF Head(seq) \in keep THEN <<Head(seq)>> ELSE <<>>)
         \o SelectPaths(Tail(seq), keep)

\* fs.readdir(DOWNLOADS_DIR) and the filter on ".zip".
ZipReaddir(r) ==
    /\ pc[r] = "zip_readdir"
    /\ IF DOWNLOADS_DIR \notin dirs
       THEN Throws(r, IF DOWNLOADS_DIR \in DOMAIN files THEN "ENOTDIR" ELSE "ENOENT",
                   DOWNLOADS_DIR)
       ELSE \E ord \in Orderings(Children(dirs, files, DOWNLOADS_DIR)) :
               LET zipFiles == SelectPaths(ord,
                                  {p \in Children(dirs, files, DOWNLOADS_DIR) :
                                      endsWith(toLowerCase(basename(p)), sZipExt)})
               IN IF Len(zipFiles) = 0
                  THEN Returns(r, Ok("No zip files found", DOWNLOADS_DIR, <<>>, 0))
                  ELSE Goto(r, "stat", [loc[r] EXCEPT !.found = zipFiles])
    /\ ReadOnly /\ Frame

sDocumentsFwd == <<"Documents", "/", "Icons">>

sDocumentsMixed == <<"documents", "\\", "Icons", "/", "sub">>

ListFilesArgs ==
    {NoBag} \cup
    {[NoArgs EXCEPT !.directory = d, !.file_type = t, !.limit = n] :
        d \in {Absent, Some(<<"Documents">>), Some(sDocumentsFwd), Some(sDocumentsMixed),
               Some(sNowhere)},
        t \in {Absent, Some(<<"svg">>), Some(<<".", "SVG">>)},
        n \in {Absent, Some(0), Some(1), Some(2)}}

\* The remainder of a "documents/..." or "downloads/..." token: split at "/" when
\* the token holds one, else at "\", the first piece dropped.
subfolderOf(dirArg) ==
    LET at == IF \E k \in 1..Len(dirArg) : dirArg[k] = "/" THEN "/" ELSE "\\"
        cuts == {k \in 1..Len(dirArg) : dirArg[k] = at}
        first == CHOOSE k \in cuts : \A j \in cuts : k <= j
    IN SubSeq(dirArg, first + 1, Len(dirArg))

\* The directory list_files searches.
listDir(args) ==
    LET dirArg == toLowerCase(IF args.bag /\ Truthy(args.directory)
                              THEN args.directory[1] ELSE <<"downloads">>)
    IN IF dirArg = <<"downloads">> THEN DOWNLOADS_DIR
       ELSE IF dirArg = <<"documents">> THEN DOCUMENTS_DIR
       ELSE IF startsWith(dirArg, <<"documents", "/">>)
               \/ startsWith(dirArg, <<"documents", "\\">>)
       THEN join(DOCUMENTS_DIR, subfolderOf(dirArg))
       ELSE IF startsWith(dirArg, <<"downloads", "/">>)
               \/ startsWith(dirArg, <<"downloads", "\\">>)
       THEN join(DOWNLOADS_DIR, subfolderOf(dirArg))
       ELSE resolve(dirArg)

\* (args?.file_type || "").toLowerCase().replace(/^\./, "")
fileTypeOf(args) ==
    LET t == toLowerCase(IF args.bag /\ Truthy(args.file_type)
                         THEN args.file_type[1] ELSE <<>>)
    IN IF t # <<>> /\ t[1] = Dot THEN Tail(t) ELSE t

\* The extension compared as it is written in the name.
extensionOfAsTyped(name) ==
    LET e == extname(name)
    IN IF e # <<>> /\ e[1] = Dot THEN Tail(e) ELSE e

\* path.extname(name).toLowerCase().replace(/^\./, "")
extensionOf(name) ==
    LET e == toLowerCase(extname(name))
    IN IF e # <<>> /\ e[1] = Dot THEN Tail(e) ELSE e

handleListFiles(r) ==
    \E args \in ListFilesArgs :
        /\ Arrives(r, "list_files", args)
        /\ Goto(r, "access_dir", [InitLoc EXCEPT !.sourceDir = listDir(args)])

KiB == 1024

MiB == 1024 * 1024

\* stats.size of a file, by its content: the files of the listing runs have
\* sizes on both sides of the two thresholds of the rendering.
sizeOf(content) ==
    CASE content = 1 -> KiB - 1
      [] content = 2 -> KiB
      [] content = 3 -> KiB + 1
      [] content = 4 -> MiB
      [] content = 7 -> MiB + 1
      [] OTHER -> content

\* (size / unit).toFixed(2), as the number of hundredths
toFixed2(size, unit) == (2 * 100 * size + unit) \div (2 * unit)

\* The size as list_files shows it: the number (hundredths for KB and MB) and
\* the unit.
displaySize(size) ==
    IF size > MiB THEN [value |-> toFixed2(size, MiB), unit |-> "MB"]
    ELSE IF size > KiB THEN [value |-> toFixed2(size, KiB), unit |-> "KB"]
    ELSE [value |-> size, unit |-> "bytes"]

\* The filter, the sort, the cut to the limit and the rendering of list_files.
Listing(args, searchDir, details) ==
    LET fileType == fileTypeOf(args)
        kept == {k \in 1..Len(details) : fileType = <<>> \/ details[k].extension = fileType}
        RECURSIVE pick(_)
        pick(k) == IF k > Len(details) THEN <<>>
                   ELSE (IF k \in kept THEN <<details[k]>> ELSE <<>>) \o pick(k + 1)
    IN Bind(pick(1), LAMBDA fileDetails :
        Bind(sliceTo(sortByModified(fileDetails), limitOf(args, DefaultListLimit)),
             LAMBDA limitedFiles :
                IF Len(fileDetails) = 0
                THEN Ok("No files found", searchDir, <<>>, 0)
                ELSE Ok("Files in directory", searchDir,
                        [k \in 1..Len(limitedFiles) |->
                            [name |-> limitedFiles[k].name, latest |-> k = 1,
                             size |-> displaySize(limitedFiles[k].size)]],
                        Len(fileDetails))))

\* After readdir or a stat of list_files: stat the next regular file, or finish.
ListNext(r, l) ==
    \E v \in {l} :
        IF v.i <= Len(v.found)
        THEN Goto(r, "list_stat", v)
        ELSE \E res \in {Listing(req[r].args, v.sourceDir, v.details)} : Returns(r, res)

\* fs.readdir(searchDir, {withFileTypes: true}); the regular files are kept.
ListReaddir(r) ==
    /\ pc[r] = "readdir"
    /\ LET d == loc[r].sourceDir
       IN IF d \notin dirs
          THEN Throws(r, IF d \in DOMAIN files THEN "ENOTDIR" ELSE "ENOENT", d)
          ELSE \E ord \in Orderings(Children(dirs, files, d)) :
                  ListNext(r, [loc[r] EXCEPT
                                 !.found = SelectPaths(ord, DOMAIN files),
                                 !.i = 1, !.details = <<>>])
    /\ ReadOnly /\ Frame

\* One fs.stat of the loop of list_files; a file that cannot be stat'ed is skipped.
ListStat(r) ==
    /\ pc[r] = "list_stat"
    /\ LET l == loc[r]
           p == l.found[l.i]
           d == IF p \in DOMAIN files
                THEN Append(l.details, [name |-> basename(p),
                                        size |-> sizeOf(files[p].content),
                                        modified |-> files[p].mtime,
                                        extension |-> extensionOf(basename(p))])
                ELSE IF p \in dirs
                THEN Append(l.details, [name |-> basename(p), size |-> 0,
                                        modified |-> Now,
                                        extension |-> extensionOf(basename(p))])
                ELSE l.details
       IN ListNext(r, [l EXCEPT !.details = d, !.i = l.i + 1])
    /\ ReadOnly /\ Frame

(***************************************************************************)
(* The tools the switch of the tool-call handler sends to a method the     *)
(* class does not define, and the names it does not know.                  *)
(***************************************************************************)
UndefinedHandlers ==
    {"list_recent_downloads", "unzip_latest", "unzip_latest_and_move_svgs"}

UnknownTools == {"no_such_tool"}

\* The method the switch calls for a tool the class does not define.
handlerName(tool) ==
    CASE tool = "list_recent_downloads" -> "handleListRecentDownloads"
      [] tool = "unzip_latest" -> "handleUnzipLatest"
      [] tool = "unzip_latest_and_move_svgs" -> "handleUnzipLatestAndMoveSvgs"

handleUnknown(r) ==
    \E tool \in UndefinedHandlers \cup UnknownTools, args \in {NoBag, NoArgs} :
        /\ Arrives(r, tool, args)
        /\ IF tool \in UndefinedHandlers
           THEN Throws(r, "this." \o handlerName(tool) \o " is not a function", <<>>)
           ELSE Throws(r, "Unknown tool: " \o tool, <<>>)

Next ==
    \E r \in Slots :
        \/ handleCreateDirectory(r)
        \/ CreateDirectoryAccess(r)
        \/ CreateDirectoryMkdir(r)
        \/ handleCopyFile(r)
        \/ handleMoveFile(r)
        \/ AccessSource(r)
        \/ Walk(r)
        \/ MkdirDest(r)
        \/ Probe(r)
        \/ Write(r)
        \/ handleMoveLatestSvg(r)
        \/ handleMoveSvg(r)
        \/ handleListSvg(r)
        \/ AccessDir(r)
        \/ MkdirSub(r)
        \/ Stat(r)
        \/ handleUnzip(r)
        \/ handleUnzipAndMoveSvgs(r)
        \/ AccessZip(r)
        \/ OpenArchive(r)
        \/ MkdirExtract(r)
        \/ Extract(r)
        \/ handleListZip(r)
        \/ ZipReaddir(r)
        \/ handleListFiles(r)
        \/ ListReaddir(r)
        \/ ListStat(r)
        \/ handleUnknown(r)
        \/ Respond(r)

Spec == Init /\ [][Next]_vars

SpecSeq == InitSeq /\ [][Next]_vars

\* One request with the event loop running every continuation that is ready:
\* each awaited filesystem call completes and the code after it runs.
SpecLive == InitLive /\ [][Next]_vars /\ WF_vars(Next)

\* The requests that copy or move one named file.
NextFile ==
    \E r \in Slots :
        \/ handleCopyFile(r)
        \/ handleMoveFile(r)
        \/ AccessSource(r)
        \/ Walk(r)
        \/ MkdirDest(r)
        \/ Probe(r)
        \/ Write(r)
        \/ Respond(r)

SpecNamer == InitNamer /\ [][NextFile]_vars

SpecConc == InitConc /\ [][NextFile]_vars

\* The requests that create a directory.
NextDir ==
    \E r \in Slots :
        \/ handleCreateDirectory(r)
        \/ CreateDirectoryAccess(r)
        \/ CreateDirectoryMkdir(r)
        \/ Respond(r)

SpecConcDir == InitConc /\ [][NextDir]_vars

\* The requests that list a directory.
NextList ==
    \E r \in Slots :
        \/ handleListFiles(r)
        \/ AccessDir(r)
        \/ ListReaddir(r)
        \/ ListStat(r)
        \/ Respond(r)

SpecList == InitList /\ [][NextList]_vars

\* The requests that move several files.
NextMulti ==
    \E r \in Slots :
        \/ handleMoveSvg(r)
        \/ handleUnzipAndMoveSvgs(r)
        \/ AccessDir(r)
        \/ MkdirSub(r)
        \/ AccessZip(r)
        \/ OpenArchive(r)
        \/ MkdirExtract(r)
        \/ Extract(r)
        \/ Walk(r)
        \/ MkdirDest(r)
        \/ Probe(r)
        \/ Write(r)
        \/ Respond(r)

SpecMulti == InitMulti /\ [][NextMulti]_vars

SpecCollect == InitCollect /\ [][NextMulti]_vars

\* The requests that move or copy files.
NextMove ==
    \E r \in Slots :
        \/ handleCopyFile(r)
        \/ handleMoveFile(r)
        \/ AccessSource(r)
        \/ handleMoveLatestSvg(r)
        \/ handleMoveSvg(r)
        \/ handleUnzipAndMoveSvgs(r)
        \/ AccessDir(r)
        \/ MkdirSub(r)
        \/ AccessZip(r)
        \/ OpenArchive(r)
        \/ MkdirExtract(r)
        \/ Extract(r)
        \/ Walk(r)
        \/ Stat(r)
        \/ MkdirDest(r)
        \/ Probe(r)
        \/ Write(r)
        \/ Respond(r)

SpecFresh == InitFresh /\ [][NextMove]_vars


(***************************************************************************)
(* Properties.                                                             *)
(***************************************************************************)
MoveCopyTools ==
    {"move_file", "copy_file", "move_latest_svg", "move_svg_files", "unzip_and_move_svgs"}

Done(r) == pc[r] = "done"

Succeeded(r) == Done(r) /\ ~result[r].isError

\* C1: in a request that runs alone, every rename or copy writes to a path at
\* which nothing exists (the last probe of the naming loop found it free), and
\* the call leaves the content at every other path as it was: no file is
\* overwritten.
C1_NoOverwrite ==
    [][\A r \in Slots :
          (pc[r] = "write" /\ req[r].tool \in MoveCopyTools) =>
             /\ (files' # files \/ dirs' # dirs) =>
                   ~Exists(dirs, files, loc[r].finalDestPath)
             /\ \A p \in DOMAIN files : p \in DOMAIN files' => files'[p] = files[p]
             /\ \A p \in DOMAIN files :
                   p \notin DOMAIN files' => p = loc[r].sourceFile
             /\ \A p \in (DOMAIN files') \ (DOMAIN files) : p = loc[r].finalDestPath]_vars

\* C1 witness: a move whose name was taken has gone to the numbered name and the
\* file that had the name is still there.
C1_Witness ==
    /\ Succeeded(1) /\ req[1].tool = "move_file"
    /\ result[1].path = join(DOCUMENTS_DIR, sReport1)
    /\ join(DOCUMENTS_DIR, sReport) \in DOMAIN files
    /\ files[join(DOCUMENTS_DIR, sReport)] = fs0[1].files[join(DOCUMENTS_DIR, sReport)]
    /\ files[join(DOCUMENTS_DIR, sReport1)].content = 4


\* C2: when the destination directory holds exactly report.pdf, report_1.pdf,
\* ..., report_<k-1>.pdf (k >= 1), the naming loop of copy_file and move_file
\* ends with report_<k>.pdf.
C2_ReturnsStemK ==
    \A r \in Slots :
        (/\ pc[r] = "write"
         /\ req[r].tool \in {"copy_file", "move_file"}
         /\ loc[r].name = sReport
         /\ loc[r].destDir = DOCUMENTS_DIR) =>
            \A k \in 1..(MaxCollisions + 1) :
                (/\ \A j \in 0..(k - 1) :
                       join(DOCUMENTS_DIR, NumberedReport(j)) \in DOMAIN files
                 /\ \A j \in k..(MaxCollisions + 1) :
                       ~Exists(dirs, files, join(DOCUMENTS_DIR, NumberedReport(j)))) =>
                    loc[r].finalDestPath = join(DOCUMENTS_DIR, NumberedReport(k))

\* C2 witness: report.pdf, report_1.pdf and report_2.pdf are there and the loop
\* has ended with report_3.pdf.
C2_Witness ==
    /\ pc[1] = "write" /\ req[1].tool = "copy_file"
    /\ \A j \in 0..2 : join(DOCUMENTS_DIR, NumberedReport(j)) \in DOMAIN files
    /\ loc[1].finalDestPath = join(DOCUMENTS_DIR, <<"report", "_", "3", ".", "pdf">>)

\* stem_n.ext for a name stem.ext of three atoms
NumberedName(name, n) == <<name[1], "_", ToString(n), Dot, name[3]>>

\* The least n >= 1 for which stem_n.ext is not in directory d of filesystem fs.
FirstFree(fs, d, name) ==
    CHOOSE n \in 1..(MaxFiles + 2) :
        /\ ~Exists(fs.dirs, fs.files, join(d, NumberedName(name, n)))
        /\ \A m \in 1..(n - 1) : Exists(fs.dirs, fs.files, join(d, NumberedName(name, m)))

\* A move_file request for a file that is at the top level of the source
\* directory and whose name is taken in the destination directory.
MoveOfTakenName(r) ==
    /\ Done(r) /\ req[r].tool = "move_file"
    /\ req[r].args.bag /\ Truthy(req[r].args.filename)
    /\ Len(Segments(req[r].args.filename[1])) = 1
    /\ Len(req[r].args.filename[1]) = 3
    /\ join(fileSourceDir(req[r].args), req[r].args.filename[1]) \in DOMAIN fs0[r].files
    /\ Exists(fs0[r].dirs, fs0[r].files,
              join(destinationDir("move_file", req[r].args), req[r].args.filename[1]))

\* C3 as stated: such a request ends with the source content at stem_1.ext, the
\* source path gone and the file that had the name untouched.
C3_AsStated ==
    \A r \in Slots :
        MoveOfTakenName(r) =>
            LET f == req[r].args.filename[1]
                src == join(fileSourceDir(req[r].args), f)
                d == destinationDir("move_file", req[r].args)
            IN /\ ~result[r].isError
               /\ join(d, NumberedName(f, 1)) \in DOMAIN files
               /\ files[join(d, NumberedName(f, 1))].content = fs0[r].files[src].content
               /\ src \notin DOMAIN files
               /\ join(d, f) \in DOMAIN files
               /\ files[join(d, f)] = fs0[r].files[join(d, f)]

\* C3 amended: such a request ends with the source content at stem_n.ext for
\* the least n >= 1 for which stem_n.ext did not exist in the destination
\* directory, the source path gone, and the file that had the name, unless it is
\* the source file itself, untouched.
C3_MovesToFirstFree ==
    \A r \in Slots :
        MoveOfTakenName(r) =>
            LET f == req[r].args.filename[1]
                src == join(fileSourceDir(req[r].args), f)
                d == destinationDir("move_file", req[r].args)
                dst == join(d, NumberedName(f, FirstFree(fs0[r], d, f)))
            IN /\ ~result[r].isError
               /\ result[r].path = dst
               /\ dst \in DOMAIN files
               /\ files[dst].content = fs0[r].files[src].content
               /\ src \notin DOMAIN files
               /\ (join(d, f) # src /\ join(d, f) \in DOMAIN fs0[r].files) =>
                     (/\ join(d, f) \in DOMAIN files
                      /\ files[join(d, f)] = fs0[r].files[join(d, f)])
               /\ \A p \in DOMAIN files : p # dst => p \in DOMAIN fs0[r].files

\* C3 witness: report.pdf and report_1.pdf were in the documents root and the
\* moved file is at report_2.pdf.
C3_Witness ==
    /\ MoveOfTakenName(1)
    /\ join(DOCUMENTS_DIR, sReport1) \in DOMAIN fs0[1].files
    /\ result[1].path = join(DOCUMENTS_DIR, <<"report", "_", "2", ".", "pdf">>)
    /\ join(DOWNLOADS_DIR, sReport) \notin DOMAIN files


\* The filesystem is as it was when request r arrived.
Untouched(r) == dirs = fs0[r].dirs /\ files = fs0[r].files

\* A create_directory request with a name.
CreateRequest(r) ==
    /\ Done(r) /\ req[r].tool = "create_directory"
    /\ req[r].args.bag /\ Truthy(req[r].args.name)

\* The request before request r was the same create_directory call and ended
\* without an error.
RepeatedCreate(r) ==
    /\ CreateRequest(r)
    /\ prev.tool = "create_directory" /\ prev.args = req[r].args
    /\ ~prev.result.isError

\* C4 as stated: on a root that has no directory at the named path the first
\* call creates it and reports success; a repeated call reports "already
\* exists", no error, and changes nothing.
C4_AsStated ==
    \A r \in Slots :
        /\ (CreateRequest(r) /\ newDirOf(req[r].args) \notin fs0[r].dirs) =>
              (/\ result[r] = Ok("Successfully created directory",
                                 newDirOf(req[r].args), <<>>, 0)
               /\ newDirOf(req[r].args) \in dirs)
        /\ RepeatedCreate(r) =>
              (/\ result[r] = Ok("Directory already exists",
                                 newDirOf(req[r].args), <<>>, 0)
               /\ Untouched(r))

\* Nothing exists at path p of filesystem fs and no ancestor of p is a file.
Creatable(fs, p) ==
    /\ ~Exists(fs.dirs, fs.files, p)
    /\ \A q \in Ancestors(p) : q \notin DOMAIN fs.files

\* C4 amended: when nothing exists at the named path and no ancestor of it is a
\* regular file, the first call creates the directory and reports success; a
\* repeated call reports "already exists", no error, and changes nothing.
C4_Idempotent ==
    \A r \in Slots :
        /\ (CreateRequest(r) /\ Creatable(fs0[r], newDirOf(req[r].args))) =>
              (/\ result[r] = Ok("Successfully created directory",
                                 newDirOf(req[r].args), <<>>, 0)
               /\ newDirOf(req[r].args) \in dirs
               /\ files = fs0[r].files
               /\ dirs = fs0[r].dirs \cup Ancestors(newDirOf(req[r].args)))
        /\ RepeatedCreate(r) =>
              (/\ result[r] = Ok("Directory already exists",
                                 newDirOf(req[r].args), <<>>, 0)
               /\ Untouched(r))

\* C4 witness: the second of two equal calls, the first of which created
\* Documents/Projects, has reported "already exists".
C4_Witness ==
    /\ RepeatedCreate(1)
    /\ prev.result.text = <<"", "Successfully created directory">>
    /\ result[1].text = <<"", "Directory already exists">>
    /\ result[1].path = <<"/", "home", "/", "OneDrive", "/", "Documents", "/", "Projects">>
    /\ result[1].path \in dirs

\* The required arguments of the tools that have any.
RequiredFields(tool) ==
    CASE tool = "create_directory" -> <<"name">>
      [] tool = "move_latest_svg" -> <<"destination_folder">>
      [] tool \in {"copy_file", "move_file", "unzip_file"} -> <<"filename">>
      [] tool = "unzip_and_move_svgs" -> <<"filename", "destination_folder">>
      [] OTHER -> <<>>

ArgOf(args, field) ==
    CASE field = "name" -> args.name
      [] field = "destination_folder" -> args.destination_folder
      [] field = "filename" -> args.filename

\* The required arguments that request r lacks: absent, or the empty string.
MissingFields(r) ==
    {f \in {RequiredFields(req[r].tool)[k] : k \in DOMAIN RequiredFields(req[r].tool)} :
        ~req[r].args.bag \/ ~Truthy(ArgOf(req[r].args, f))}

\* C5: a request that lacks a required argument ends with an error result whose
\* message names a lacking argument, and the filesystem is as before.
C5_MissingArgument ==
    \A r \in Slots :
        (Done(r) /\ MissingFields(r) # {}) =>
            /\ result[r].isError
            /\ \E f \in MissingFields(r) :
                  result[r].text \in {<<"Error: ", f \o " is required">>,
                                      <<"Error: ", TypeErrorReading(f)>>}
            /\ Untouched(r)

\* C5 witness: unzip_and_move_svgs for an archive that exists, without
\* destination_folder, has ended with "destination_folder is required".
C5_Witness ==
    /\ Done(1) /\ req[1].tool = "unzip_and_move_svgs"
    /\ req[1].args.filename = Some(sPack)
    /\ join(DOWNLOADS_DIR, sPack) \in DOMAIN files
    /\ req[1].args.destination_folder = Absent
    /\ result[1].text = <<"Error: ", "destination_folder is required">>



\* The file or directory request r refers to was not there when r arrived: the
\* archive, the directory searched or listed, or the file to copy or move
\* (neither at the top of the source directory nor anywhere below it).
ReferencedMissing(r) ==
    LET tool == req[r].tool
        args == req[r].args
        fs == fs0[r]
        dirOf(a) == IF Truthy(a) THEN resolve(a[1]) ELSE DOWNLOADS_DIR
    IN /\ Done(r)
       /\ CASE tool \in {"unzip_file", "unzip_and_move_svgs"} ->
                 /\ args.bag /\ Truthy(args.filename)
                 /\ ~Exists(fs.dirs, fs.files, join(DOWNLOADS_DIR, args.filename[1]))
            [] tool \in {"move_latest_svg", "move_svg_files"} ->
                 args.bag /\ ~Exists(fs.dirs, fs.files, dirOf(args.source))
            [] tool = "list_svg_files" ->
                 args.bag /\ ~Exists(fs.dirs, fs.files, dirOf(args.directory))
            [] tool = "list_files" ->
                 ~Exists(fs.dirs, fs.files, listDir(args))
            [] tool \in {"copy_file", "move_file"} ->
                 /\ args.bag /\ Truthy(args.filename)
                 /\ ~Exists(fs.dirs, fs.files,
                            join(fileSourceDir(args), args.filename[1]))
                 /\ \A p \in DOMAIN fs.files :
                       startsWith(p, fileSourceDir(args) \o <<Sep>>) =>
                           basename(p) # args.filename[1]
            [] OTHER -> FALSE

\* C6: when the file, directory or archive a request refers to does not exist,
\* the request ends with an error result and the filesystem is as before: no
\* destination directory and no extraction directory has been created.
C6_NotFound ==
    \A r \in Slots :
        ReferencedMissing(r) => (result[r].isError /\ Untouched(r))

\* C6 witness: move_svg_files from a directory that does not exist, into a
\* subfolder that does not exist, has ended with "Source directory not found"
\* and the subfolder has not been created.
C6_Witness ==
    /\ ReferencedMissing(1) /\ req[1].tool = "move_svg_files"
    /\ req[1].args.subfolder = Some(sIcons)
    /\ join(DOCUMENTS_DIR, sIcons) \notin dirs
    /\ result[1].text = <<"Error: ", "Source directory not found">>

\* The tool names the switch of the tool-call handler has a handler for.
HandledTools ==
    {"unzip_file", "move_svg_files", "list_zip_files", "list_svg_files",
     "unzip_and_move_svgs", "create_directory", "move_latest_svg", "copy_file",
     "move_file", "list_files"}

\* C7: every request ends with exactly one result: there is none before the
\* handler has ended, the one it ends with stays until the transport takes it,
\* a result carries the text "Error: <message>" exactly when the error marker is
\* set, and a request for a tool without a handler ends with such an error.
C7_OneResult ==
    /\ [](\A r \in Slots :
            /\ ~Done(r) => result[r] = NoResult
            /\ Done(r) =>
                  /\ result[r] # NoResult
                  /\ Len(result[r].text) = 2
                  /\ result[r].isError <=> result[r].text[1] = "Error: "
                  /\ req[r].tool \notin HandledTools => result[r].isError
                  /\ MissingFields(r) # {} => result[r].isError)
    /\ [][\A r \in Slots :
            Done(r) => (result'[r] = result[r] \/ (pc'[r] = "idle" /\ result'[r] = NoResult))]_vars

\* C7 witness: a request for unzip_latest, which the switch names and the class
\* does not define, has ended with an error result.
C7_Witness ==
    /\ Done(1) /\ req[1].tool = "unzip_latest"
    /\ result[1].isError
    /\ result[1].text = <<"Error: ", "this.handleUnzipLatest is not a function">>

\* C8: the rename or copy of a request is not conditional on the probed path
\* still being free: when the source is still there the call succeeds and puts
\* the source's content at the path, replacing what another request has written
\* there since the probe, and the request reports success.
C8_WriteReplaces ==
    [][\A r \in Slots :
          (/\ pc[r] = "write" /\ pc'[r] = "done"
           /\ req[r].tool \in {"copy_file", "move_file"}
           /\ loc[r].sourceFile \in DOMAIN files) =>
              /\ ~result'[r].isError
              /\ result'[r].path = loc[r].finalDestPath
              /\ loc[r].finalDestPath \in DOMAIN files'
              /\ files'[loc[r].finalDestPath].content = files[loc[r].sourceFile].content]_vars

\* C8 witness: two interleaved move_file requests, for a.svg and for sub/a.svg,
\* both found Documents/a.svg free, both report success for that path, and the
\* content of one of the two files is nowhere any more.
C8_Witness ==
    LET dst == join(DOCUMENTS_DIR, sA)
    IN /\ Succeeded(1) /\ Succeeded(2)
       /\ req[1].tool = "move_file" /\ req[2].tool = "move_file"
       /\ req[1].args.filename # req[2].args.filename
       /\ result[1].path = dst /\ result[2].path = dst
       /\ ~Exists(fs0[1].dirs, fs0[1].files, dst)
       /\ ~Exists(fs0[2].dirs, fs0[2].files, dst)
       /\ {1, 2} \subseteq {fs0[1].files[p].content : p \in DOMAIN fs0[1].files}
       /\ \E c \in {1, 2} : c \notin {files[p].content : p \in DOMAIN files}

\* C9: the file move_latest_svg selects has the greatest modification time of
\* the files found, and every file found before it has a smaller one: of the
\* files that share the greatest time the first found is selected.
C9_LatestFirstSeen ==
    [][\A r \in Slots :
          (/\ pc[r] = "stat" /\ pc'[r] = "mkdir_dest"
           /\ req[r].tool = "move_latest_svg") =>
              LET found == loc[r].found
                  mtime(k) == files[found[k]].mtime
              IN \E k \in 1..Len(found) :
                    /\ loc'[r].sourceFile = found[k]
                    /\ \A j \in 1..Len(found) : mtime(j) <= mtime(k)
                    /\ \A j \in 1..(k - 1) : mtime(j) < mtime(k)]_vars

\* C9 witness: of a.svg (time 1), sub/a.svg and sub/B.SVG (both time 2), B.SVG
\* was found before sub/a.svg and has been selected.
C9_Witness ==
    /\ pc[1] = "mkdir_dest" /\ req[1].tool = "move_latest_svg"
    /\ {join(DOWNLOADS_DIR, sA), join(join(DOWNLOADS_DIR, sSub), sA),
        join(join(DOWNLOADS_DIR, sSub), sB)} \subseteq DOMAIN files
    /\ loc[1].sourceDir = DOWNLOADS_DIR
    /\ loc[1].sourceFile = join(join(DOWNLOADS_DIR, sSub), sB)

\* A move_latest_svg request that has moved a file.
MovedLatest(r) ==
    /\ Succeeded(r) /\ req[r].tool = "move_latest_svg"
    /\ result[r].text = <<"", "Successfully moved the latest SVG file">>

\* The files of filesystem fs below directory d.
FilesBelow(fs, d) == {p \in DOMAIN fs.files : startsWith(p, d \o <<Sep>>)}

\* C10 as stated: one file of the source tree has left the source tree and is
\* once in the destination directory; every other file of the source tree and
\* every file that was in the destination directory is in place and unchanged.
C10_AsStated ==
    \A r \in Slots :
        MovedLatest(r) =>
            LET src == IF Truthy(req[r].args.source) THEN resolve(req[r].args.source[1])
                       ELSE DOWNLOADS_DIR
                d == destinationDir("move_latest_svg", req[r].args)
                p == result[r].path
            IN \E f \in FilesBelow(fs0[r], src) :
                  /\ f \notin DOMAIN files
                  /\ p \notin FilesBelow([dirs |-> dirs, files |-> files], src)
                  /\ p \in DOMAIN files /\ dirname(p) = d
                  /\ files[p].content = fs0[r].files[f].content
                  /\ \A q \in FilesBelow(fs0[r], src) \ {f} :
                        q \in DOMAIN files /\ files[q] = fs0[r].files[q]
                  /\ \A q \in DOMAIN fs0[r].files :
                        dirname(q) = d => (q \in DOMAIN files /\ files[q] = fs0[r].files[q])

\* C10 amended: one file of the source tree has left its path and is at a path
\* of the destination directory at which nothing was; every other file is in
\* place and unchanged, and there is no other new file.
C10_MovesOne ==
    \A r \in Slots :
        MovedLatest(r) =>
            LET src == IF Truthy(req[r].args.source) THEN resolve(req[r].args.source[1])
                       ELSE DOWNLOADS_DIR
                d == destinationDir("move_latest_svg", req[r].args)
                p == result[r].path
            IN \E f \in FilesBelow(fs0[r], src) :
                  /\ ~Exists(fs0[r].dirs, fs0[r].files, p)
                  /\ dirname(p) = d
                  /\ DOMAIN files = ((DOMAIN fs0[r].files) \ {f}) \cup {p}
                  /\ files[p] = fs0[r].files[f]
                  /\ \A q \in (DOMAIN fs0[r].files) \ {f} : files[q] = fs0[r].files[q]

\* C10 witness: B.SVG, the latest of two files below Downloads, is in
\* Documents/Icons next to the a.svg that was there, and a.svg of Downloads is
\* where it was.
C10_Witness ==
    /\ MovedLatest(1)
    /\ result[1].path = join(join(DOCUMENTS_DIR, sIcons), sB)
    /\ join(join(DOWNLOADS_DIR, sSub), sB) \notin DOMAIN files
    /\ join(DOWNLOADS_DIR, sA) \in DOMAIN files
    /\ join(join(DOCUMENTS_DIR, sIcons), sA) \in DOMAIN fs0[1].files
    /\ join(join(DOCUMENTS_DIR, sIcons), sA) \in DOMAIN files


\* The elements of a sequence.
Range(seq) == {seq[k] : k \in 1..Len(seq)}

\* A list_svg_files request that has ended without an error.
ListedSvg(r) ==
    /\ Succeeded(r) /\ req[r].tool = "list_svg_files"

\* C11: findFiles(dir, ".svg"), as list_svg_files reports it, returns each
\* regular file at any depth below dir whose lower-cased name ends with ".svg",
\* once, and nothing else: no directory and no file with another suffix.
C11_FindsExactly ==
    \A r \in Slots :
        ListedSvg(r) =>
            LET dir == IF Truthy(req[r].args.directory)
                       THEN resolve(req[r].args.directory[1]) ELSE DOWNLOADS_DIR
                found == result[r].list
            IN /\ {join(dir, f) : f \in Range(found)} =
                    {p \in FilesBelow(fs0[r], dir) :
                        endsWith(toLowerCase(basename(p)), sSvgExt)}
               /\ Cardinality(Range(found)) = Len(found)
               /\ result[r].total = Len(found)

\* C11 witness: below Downloads are a.svg, sub/B.SVG and report.pdf; the two
\* SVG files, the one in the subdirectory with its upper-case name, are listed.
C11_Witness ==
    /\ ListedSvg(1)
    /\ DOMAIN fs0[1].files = {join(DOWNLOADS_DIR, sA), join(DOWNLOADS_DIR, sReport),
                              join(join(DOWNLOADS_DIR, sSub), sB)}
    /\ Range(result[1].list) = {sA, sSub \o <<Sep>> \o sB}


\* The files directly in directory d of filesystem fs that pass the filter of
\* list_files.
Matching(fs, d, args) ==
    {p \in DOMAIN fs.files :
        /\ dirname(p) = d
        /\ fileTypeOf(args) # <<>> => extensionOf(basename(p)) = fileTypeOf(args)}

Min(a, b) == IF a < b THEN a ELSE b

\* A list_files request with a limit, on a directory with at least one file
\* that passes the filter, the times of those files being distinct.
ListedWithLimit(r) ==
    /\ Done(r) /\ req[r].tool = "list_files"
    /\ req[r].args.bag /\ req[r].args.limit # Absent
    /\ listDir(req[r].args) \in fs0[r].dirs
    /\ Matching(fs0[r], listDir(req[r].args), req[r].args) # {}
    /\ \A p, q \in Matching(fs0[r], listDir(req[r].args), req[r].args) :
          p # q => fs0[r].files[p].mtime # fs0[r].files[q].mtime

\* C12 as stated: with limit L and N files passing the filter, the min(L, N)
\* newest of them are shown, newest first, only the first is marked latest, and
\* the counts reported are min(L, N) and N.
C12_AsStated ==
    \A r \in Slots :
        ListedWithLimit(r) =>
            LET m == Matching(fs0[r], listDir(req[r].args), req[r].args)
                L == req[r].args.limit[1]
                shown == result[r].list
                time(k) == fs0[r].files[join(listDir(req[r].args), shown[k].name)].mtime
            IN /\ ~result[r].isError
               /\ Len(shown) = Min(L, Cardinality(m))
               /\ result[r].total = Cardinality(m)
               /\ \A k \in 1..Len(shown) :
                     /\ join(listDir(req[r].args), shown[k].name) \in m
                     /\ shown[k].latest <=> k = 1
                     /\ Cardinality({p \in m : fs0[r].files[p].mtime > time(k)}) = k - 1


\* The position of the first separator of either kind in a token, 0 when there
\* is none.
FirstSep(token) ==
    IF \E k \in 1..Len(token) : token[k] \in Seps
    THEN CHOOSE k \in 1..Len(token) :
            token[k] \in Seps /\ \A j \in 1..(k - 1) : token[j] \notin Seps
    ELSE 0

\* A list_files request whose directory token is a keyword, in any case,
\* followed by a separator and a remainder.
ListedSubfolder(r) ==
    /\ Done(r) /\ req[r].tool = "list_files"
    /\ req[r].args.bag /\ Truthy(req[r].args.directory)
    /\ LET token == req[r].args.directory[1]
       IN /\ FirstSep(token) > 1
          /\ toLowerCase(SubSeq(token, 1, FirstSep(token) - 1))
                \in {<<"documents">>, <<"downloads">>}

\* C13 as stated: such a token is resolved to the root of its keyword joined
\* with the rest of the token after its first separator, the rest unchanged.
C13_AsStated ==
    \A r \in Slots :
        ListedSubfolder(r) =>
            LET token == req[r].args.directory[1]
                k == FirstSep(token)
                root == IF toLowerCase(SubSeq(token, 1, k - 1)) = <<"documents">>
                        THEN DOCUMENTS_DIR ELSE DOWNLOADS_DIR
            IN result[r].path = join(root, SubSeq(token, k + 1, Len(token)))


\* Request r is in the loop of a tool that moves several files.
InMoveLoop(r) == pc[r] \in {"probe", "write"} /\ MultiFile(req[r].tool)

\* C14: while a request moves files 1..m, the files before the current one are
\* at their new paths in the destination and no longer at their source paths,
\* and the current and later ones are at their source paths; when the rename of
\* the current file fails the request ends there with an error result and the
\* filesystem as it is: nothing is rolled back, retried or skipped.
C14_NoRollback ==
    /\ [](\A r \in Slots :
            InMoveLoop(r) =>
                LET l == loc[r]
                IN /\ Len(l.moved) = l.i - 1
                   /\ \A k \in 1..(l.i - 1) :
                         /\ l.found[k] \notin DOMAIN files
                         /\ join(l.destDir, l.moved[k]) \in DOMAIN files
                         /\ req[r].tool = "move_svg_files" =>
                               files[join(l.destDir, l.moved[k])] = fs0[r].files[l.found[k]]
                   /\ \A k \in l.i..Len(l.found) : l.found[k] \in DOMAIN files)
    /\ [][\A r \in Slots :
            (/\ pc[r] = "write" /\ MultiFile(req[r].tool)
             /\ loc[r].sourceFile \in locked) =>
                /\ pc'[r] = "done"
                /\ result'[r].isError
                /\ files' = files /\ dirs' = dirs]_vars

\* C14 witness: move_svg_files has moved a.svg to the documents root, could not
\* move sub/B.SVG, and has ended with an error; a.svg is still where it was
\* moved to and B.SVG is where it was.
C14_Witness ==
    /\ Done(1) /\ req[1].tool = "move_svg_files"
    /\ result[1].isError
    /\ locked = {join(join(DOWNLOADS_DIR, sSub), sB)}
    /\ join(DOWNLOADS_DIR, sA) \in DOMAIN fs0[1].files
    /\ join(DOWNLOADS_DIR, sA) \notin DOMAIN files
    /\ join(DOCUMENTS_DIR, sA) \in DOMAIN files
    /\ join(DOCUMENTS_DIR, sA) \notin DOMAIN fs0[1].files
    /\ join(join(DOWNLOADS_DIR, sSub), sB) \in DOMAIN files


\* The SVG files of filesystem fs below directory d.
SvgBelow(fs, d) ==
    {p \in FilesBelow(fs, d) : endsWith(toLowerCase(basename(p)), sSvgExt)}

\* Request r is a search or a selection that has nothing to find: a directory
\* without SVG files for the three SVG tools, a directory without a file that
\* passes the filter for list_files.
EmptySearch(r) ==
    LET tool == req[r].tool
        args == req[r].args
        fs == fs0[r]
        dirOf(a) == IF Truthy(a) THEN resolve(a[1]) ELSE DOWNLOADS_DIR
    IN /\ Done(r)
       /\ CASE tool = "move_latest_svg" ->
                 /\ args.bag /\ Truthy(args.destination_folder)
                 /\ dirOf(args.source) \in fs.dirs
                 /\ SvgBelow(fs, dirOf(args.source)) = {}
            [] tool = "move_svg_files" ->
                 /\ args.bag /\ dirOf(args.source) \in fs.dirs
                 /\ SvgBelow(fs, dirOf(args.source)) = {}
                 /\ Truthy(args.subfolder) =>
                       mkdirError(fs.dirs, fs.files,
                                  join(DOCUMENTS_DIR, args.subfolder[1])) = "ok"
            [] tool = "list_svg_files" ->
                 /\ args.bag /\ dirOf(args.directory) \in fs.dirs
                 /\ SvgBelow(fs, dirOf(args.directory)) = {}
            [] tool = "list_files" ->
                 /\ listDir(args) \in fs.dirs
                 /\ Matching(fs, listDir(args), args) = {}
            [] OTHER -> FALSE

\* Request r is unzip_and_move_svgs for an archive without SVG files that can
\* be extracted.
EmptyArchive(r) ==
    LET args == req[r].args
        fs == fs0[r]
        zipPath == join(DOWNLOADS_DIR, args.filename[1])
        extractPath == join(DOWNLOADS_DIR, basenameExt(args.filename[1], sZipExt))
        zip == ZipEntries(fs.files[zipPath].content)
    IN /\ Done(r) /\ req[r].tool = "unzip_and_move_svgs"
       /\ args.bag /\ Truthy(args.filename) /\ Truthy(args.destination_folder)
       /\ zipPath \in DOMAIN fs.files
       /\ zip.valid
       /\ \A k \in 1..Len(zip.entries) :
             ~endsWith(toLowerCase(basename(zip.entries[k].name)), sSvgExt)
       /\ mkdirError(fs.dirs, fs.files, extractPath) = "ok"
       /\ ~extractError(mkdirDirs(fs.dirs, extractPath), fs.files, extractPath, zip.entries)
       /\ SvgBelow(fs, extractPath) = {}

\* C15: a search or selection that yields no file ends with a result without
\* the error marker and every file is where and as it was; for
\* unzip_and_move_svgs the archive's entries have been extracted all the same,
\* and nothing else has changed.
C15_EmptySet ==
    \A r \in Slots :
        /\ EmptySearch(r) => (~result[r].isError /\ files = fs0[r].files)
        /\ EmptyArchive(r) =>
              LET extractPath == join(DOWNLOADS_DIR,
                                      basenameExt(req[r].args.filename[1], sZipExt))
                  zip == ZipEntries(fs0[r].files[join(DOWNLOADS_DIR,
                                                      req[r].args.filename[1])].content)
              IN /\ ~result[r].isError
                 /\ files = extractFiles(fs0[r].files, extractPath, zip.entries)
                 /\ ExtractTargets(extractPath, zip.entries) \subseteq DOMAIN files

\* C15 witness: unzip_and_move_svgs for an archive that holds only c.png has
\* ended without error and pack/c.png is in Downloads.
C15_Witness ==
    /\ EmptyArchive(1)
    /\ result[1].text = <<"", "Successfully unzipped, but no SVG files were found">>
    /\ join(join(DOWNLOADS_DIR, <<"pack">>), sPng) \in DOMAIN files
    /\ join(join(DOWNLOADS_DIR, <<"pack">>), sPng) \notin DOMAIN fs0[1].files


\* The tool names the tool list advertises.
AdvertisedTools == HandledTools \cup UndefinedHandlers

\* The inputs of request r were there and usable when it arrived: what it
\* refers to exists and is of the right kind, the archive can be read and
\* extracted, and the directory it is to create or fill can be created.
InputsUsable(r) ==
    LET tool == req[r].tool
        args == req[r].args
        fs == fs0[r]
        dirOf(a) == IF Truthy(a) THEN resolve(a[1]) ELSE DOWNLOADS_DIR
        canMake(d) == mkdirError(fs.dirs, fs.files, d) = "ok"
        zipPath == join(DOWNLOADS_DIR, args.filename[1])
        zip == ZipEntries(fs.files[zipPath].content)
        extractable(d) ==
            /\ zipPath \in DOMAIN fs.files /\ zip.valid
            /\ canMake(d)
            /\ ~extractError(mkdirDirs(fs.dirs, d), fs.files, d, zip.entries)
    IN /\ ~ReferencedMissing(r)
       /\ CASE tool = "unzip_file" ->
                 extractable(join(unzipDestDir(args),
                                  basenameExt(args.filename[1], sZipExt)))
            [] tool = "unzip_and_move_svgs" ->
                 /\ extractable(join(DOWNLOADS_DIR, basenameExt(args.filename[1], sZipExt)))
                 /\ canMake(destinationDir(tool, args))
            [] tool = "move_latest_svg" ->
                 dirOf(args.source) \in fs.dirs /\ canMake(destinationDir(tool, args))
            [] tool = "move_svg_files" ->
                 /\ dirOf(args.source) \in fs.dirs
                 /\ Truthy(args.subfolder) => canMake(join(DOCUMENTS_DIR, args.subfolder[1]))
            [] tool = "list_svg_files" -> dirOf(args.directory) \in fs.dirs
            [] tool = "list_files" -> listDir(args) \in fs.dirs
            [] tool \in {"copy_file", "move_file"} ->
                 /\ fileSourceDir(args) \in fs.dirs
                 /\ canMake(destinationDir(tool, args))
            [] tool = "create_directory" -> canMake(newDirOf(args))
            [] tool = "list_zip_files" -> DOWNLOADS_DIR \in fs.dirs
            [] tool \in UndefinedHandlers ->
                 /\ DOWNLOADS_DIR \in fs.dirs
                 /\ join(DOWNLOADS_DIR, sPack) \in DOMAIN fs.files
            [] OTHER -> FALSE

\* A request for an advertised tool with its arguments in order and its inputs
\* there.
WellFormedCall(r) ==
    /\ Done(r) /\ req[r].tool \in AdvertisedTools
    /\ req[r].args.bag /\ MissingFields(r) = {}
    /\ InputsUsable(r)

\* C16 as stated: every advertised tool has a handler that does its work: a
\* well-formed call whose inputs exist ends without the error marker.
C16_AsStated ==
    \A r \in Slots : WellFormedCall(r) => ~result[r].isError


\* Request r of a move or copy tool is at the probes or at the write.
AtProbeOrWrite(r) == pc[r] \in {"probe", "write"} /\ req[r].tool \in MoveCopyTools

\* C17 as stated: in every move or copy request the destination directory has
\* been created before the first probe; the probe that finds the path free is
\* followed, as the request's next filesystem call, by the rename or copy to
\* that path.
C17_AsStated ==
    /\ [](\A r \in Slots : AtProbeOrWrite(r) => loc[r].destDir \in dirs)
    /\ [][\A r \in Slots :
            /\ (AtProbeOrWrite(r) /\ pc[r] = "probe" /\ pc'[r] # "probe") =>
                  (/\ pc'[r] = "write"
                   /\ loc'[r].finalDestPath = loc[r].finalDestPath
                   /\ ~Exists(dirs, files, loc[r].finalDestPath))
            /\ (AtProbeOrWrite(r) /\ pc[r] = "write" /\ pc'[r] # "write"
                /\ ~result'[r].isError) =>
                  loc[r].finalDestPath \in DOMAIN files']_vars


\* The naming loop of request r, for report.pdf in Documents, has ended.
NamedReport(r) ==
    /\ pc[r] = "write"
    /\ req[r].tool \in {"copy_file", "move_file"}
    /\ loc[r].name = sReport
    /\ loc[r].destDir = DOCUMENTS_DIR

\* C18: the naming loop returns the desired path when it is free, and otherwise
\* stem_n.ext for the least n >= 1 whose path is free, whichever numbered names
\* are taken: a gap in the numbering is filled.
C18_SmallestFree ==
    \A r \in Slots :
        NamedReport(r) =>
            IF ~Exists(dirs, files, join(DOCUMENTS_DIR, sReport))
            THEN loc[r].finalDestPath = join(DOCUMENTS_DIR, sReport)
            ELSE \E n \in 1..(MaxCollisions + 1) :
                    /\ loc[r].finalDestPath = join(DOCUMENTS_DIR, NumberedName(sReport, n))
                    /\ ~Exists(dirs, files, loc[r].finalDestPath)
                    /\ \A m \in 1..(n - 1) :
                          Exists(dirs, files, join(DOCUMENTS_DIR, NumberedName(sReport, m)))

\* C18 witness: report.pdf and report_2.pdf are taken, report_1.pdf is not, and
\* the loop has ended with report_1.pdf.
C18_Witness ==
    /\ NamedReport(1)
    /\ join(DOCUMENTS_DIR, sReport) \in DOMAIN files
    /\ join(DOCUMENTS_DIR, NumberedName(sReport, 2)) \in DOMAIN files
    /\ join(DOCUMENTS_DIR, NumberedName(sReport, 1)) \notin DOMAIN files
    /\ loc[1].finalDestPath = join(DOCUMENTS_DIR, NumberedName(sReport, 1))


\* Request r of copy_file or move_file has ended; the file it names is not at
\* the top level of the source directory and a regular file of that name lies
\* deeper below it, so the fallback search has run with the extension of the
\* requested name as its suffix.
FallbackSearched(r) ==
    /\ Done(r) /\ req[r].tool \in {"copy_file", "move_file"}
    /\ req[r].args.bag /\ Truthy(req[r].args.filename)
    /\ Len(Segments(req[r].args.filename[1])) = 1
    /\ extname(req[r].args.filename[1]) # <<>>
    /\ LET sourceDir == fileSourceDir(req[r].args)
       IN /\ ~Exists(fs0[r].dirs, fs0[r].files, join(sourceDir, req[r].args.filename[1]))
          /\ \E p \in FilesBelow(fs0[r], sourceDir) :
                basename(p) = req[r].args.filename[1]

\* C19 as stated: the finder compares the lower-cased name with the lower-cased
\* suffix for every caller, so the fallback search of copy_file and move_file
\* finds a file that lies in a subdirectory of the source whatever the case of
\* the letters of its extension.
C19_AsStated ==
    \A r \in Slots :
        FallbackSearched(r) => result[r].text # <<"Error: ", "File not found">>


\* The token is "downloads" or "documents", in any case of its letters.
IsKeyword(token) == toLowerCase(token) \in {<<"downloads">>, <<"documents">>}

\* The token is a keyword followed by a separator and a subfolder.
IsKeywordSub(token) ==
    /\ FirstSep(token) > 1
    /\ IsKeyword(SubSeq(token, 1, FirstSep(token) - 1))

\* The location token of request r, <<>> when the request has none.
LocationToken(r) ==
    LET tool == req[r].tool
        args == req[r].args
        arg == CASE tool = "create_directory" -> args.location
                 [] tool \in {"copy_file", "move_file", "move_latest_svg"} -> args.source
                 [] tool \in {"list_files", "list_svg_files"} -> args.directory
                 [] tool = "unzip_file" -> args.destination
                 [] OTHER -> Absent
    IN IF args.bag /\ Truthy(arg) THEN arg[1] ELSE <<>>

\* Request r is at the first filesystem call that uses the directory resolved
\* from its location token, and the token has one of the four forms.
Resolved(r) ==
    /\ \/ pc[r] = "cd_access" /\ req[r].tool = "create_directory"
       \/ pc[r] = "access_src" /\ req[r].tool \in {"copy_file", "move_file"}
       \/ pc[r] = "access_dir"
            /\ req[r].tool \in {"move_latest_svg", "list_svg_files", "list_files"}
       \/ pc[r] = "mkdir_extract" /\ req[r].tool = "unzip_file"
    /\ IsKeyword(LocationToken(r)) \/ IsKeywordSub(LocationToken(r))

\* The path the request has built on the directory dir of its location token.
BuiltOn(r, dir) ==
    CASE req[r].tool = "create_directory" ->
            loc[r].destDir = join(dir, req[r].args.name[1])
      [] req[r].tool = "unzip_file" ->
            loc[r].extractPath = join(dir, basenameExt(req[r].args.filename[1], sZipExt))
      [] OTHER -> loc[r].sourceDir = dir

\* C20 as stated: in every operation that accepts a location token, the token
\* "downloads", "documents", "documents/<sub>" or "downloads/<sub>" yields the
\* directory that the resolution of list_files yields for it.
C20_AsStated ==
    \A r \in Slots :
        Resolved(r) =>
            BuiltOn(r, listDir([NoArgs EXCEPT !.directory = Some(LocationToken(r))]))

\* C20 amended: the keywords "downloads" and "documents" yield the directory
\* list_files yields for them in create_directory, copy_file, move_file and
\* unzip_file; in these four a keyword followed by a subfolder is a path below
\* the working directory (lower-cased, except in unzip_file), and in
\* move_latest_svg and list_svg_files each of the four forms is a path below
\* the working directory, as it was typed.
C20_ResolvesPerTool ==
    \A r \in Slots :
        (Resolved(r) /\ req[r].tool # "list_files") =>
            LET tool == req[r].tool
                token == LocationToken(r)
            IN IF tool \in {"move_latest_svg", "list_svg_files"}
               THEN BuiltOn(r, join(CWD, token))
               ELSE IF IsKeyword(token)
               THEN BuiltOn(r, listDir([NoArgs EXCEPT !.directory = Some(token)]))
               ELSE IF tool = "unzip_file"
               THEN BuiltOn(r, join(CWD, token))
               ELSE BuiltOn(r, join(CWD, toLowerCase(token)))

\* C20 witness: create_directory with the location "documents/sub" is about to
\* look at a path below the working directory, and list_files resolves the
\* same token to the subfolder of the documents root.
C20_Witness ==
    /\ Resolved(1) /\ req[1].tool = "create_directory"
    /\ req[1].args.location = Some(sDocumentsSub)
    /\ req[1].args.name = Some(sProjects)
    /\ loc[1].destDir = join(join(CWD, sDocumentsSub), sProjects)
    /\ listDir([NoArgs EXCEPT !.directory = Some(sDocumentsSub)]) = join(DOCUMENTS_DIR, sSub)


\* Request r of list_files has ended with a list of files.
Listed(r) == Succeeded(r) /\ req[r].tool = "list_files" /\ result[r].list # <<>>

\* C21 as stated: a file of s bytes is shown as "s bytes" when s < 1024, as
\* s/1024 with two decimals and the unit KB when 1024 <= s < 1048576, and as
\* s/1048576 with two decimals and the unit MB when s >= 1048576.
C21_AsStated ==
    \A r \in Slots :
        Listed(r) =>
            \A k \in 1..Len(result[r].list) :
                LET entry == result[r].list[k]
                    s == sizeOf(fs0[r].files[join(result[r].path, entry.name)].content)
                IN IF s < KiB THEN entry.size = [value |-> s, unit |-> "bytes"]
                   ELSE IF s < MiB
                   THEN entry.size = [value |-> toFixed2(s, KiB), unit |-> "KB"]
                   ELSE entry.size = [value |-> toFixed2(s, MiB), unit |-> "MB"]


\* The place of the file called name in the enumeration of request r.
PlaceOf(r, name) ==
    CHOOSE k \in 1..Len(loc[r].found) : basename(loc[r].found[k]) = name

\* In request r the file called n goes before the file called m: it is newer,
\* or as old and earlier in the enumeration.
GoesBefore(r, n, m) ==
    LET tn == files[join(loc[r].sourceDir, n)].mtime
        tm == files[join(loc[r].sourceDir, m)].mtime
    IN tn > tm \/ (tn = tm /\ PlaceOf(r, n) < PlaceOf(r, m))

\* C22: when list_files ends with a list, the records are in the order of their
\* modification times, newest first, records of equal times in the order of the
\* directory enumeration; the records the limit cuts off are those that go after
\* every record shown.
C22_StableNewestFirst ==
    [][\A r \in Slots :
          (pc[r] = "list_stat" /\ req[r].tool = "list_files"
           /\ pc'[r] = "done" /\ result'[r].list # <<>>) =>
              LET shown == result'[r].list
                  names == {shown[k].name : k \in 1..Len(shown)}
                  kept == {basename(p) : p \in Matching([dirs |-> dirs, files |-> files],
                                                        loc[r].sourceDir, req[r].args)}
              IN /\ \A i, j \in 1..Len(shown) :
                       i < j => GoesBefore(r, shown[i].name, shown[j].name)
                 /\ names \subseteq kept
                 /\ \A n \in names, m \in kept \ names : GoesBefore(r, n, m)]_vars

\* C22 witness: d.svg and e.svg have the same modification time and both are
\* listed, after report.pdf was cut off by the limit.
C22_Witness ==
    /\ Listed(1)
    /\ req[1].args.limit = Some(2)
    /\ join(DOWNLOADS_DIR, sReport) \in DOMAIN files
    /\ {result[1].list[k].name : k \in 1..Len(result[1].list)}
          = {<<"d", ".", "svg">>, <<"e", ".", "svg">>}


\* Request r of list_files, for a directory that exists, has ended.
ListedDirectory(r) ==
    /\ Done(r) /\ req[r].tool = "list_files"
    /\ listDir(req[r].args) \in fs0[r].dirs

\* The filter of request r: file_type lower-cased, one leading dot removed.
FilterOf(r) ==
    LET t == IF req[r].args.bag /\ req[r].args.file_type # Absent
             THEN req[r].args.file_type[1] ELSE <<>>
        low == [i \in 1..Len(t) |-> LowerAtom(t[i])]
    IN IF low # <<>> /\ low[1] = Dot THEN SubSeq(low, 2, Len(low)) ELSE low

\* The text after the last dot of a name, lower-cased; <<>> when it has no dot.
AfterLastDot(name) ==
    LET k == LastIndexIn(name, {Dot})
    IN IF k = 0 THEN <<>>
       ELSE [i \in 1..(Len(name) - k) |-> LowerAtom(name[k + i])]

AtRoot(r) == pc[r] = "walk" /\ loc[r].stack = <<>>

\* The root directory of the search of request r.
RootOf(r) ==
    IF req[r].tool = "unzip_and_move_svgs" THEN loc[r].extractPath ELSE loc[r].sourceDir

\* No regular file at any depth below the root of request r has a lower-cased
\* name that ends with the lower-cased suffix of the search.
NothingMatches(r) ==
    \A p \in FilesBelow([dirs |-> dirs, files |-> files], RootOf(r)) :
        ~endsWith(toLowerCase(basename(p)), toLowerCase(loc[r].ext))

\* C24: a search whose root directory does not exist fails at its first step
\* and the request ends with an error result; a search whose root exists and
\* holds no matching file at any depth ends without failing, with an empty
\* sequence: the listing and the SVG moves report that nothing was found, and
\* copy_file and move_file, which need the file, report "File not found".
C24_FinderOutcome ==
    [][\A r \in Slots :
          /\ (AtRoot(r) /\ RootOf(r) \notin dirs /\ pc'[r] # pc[r]) =>
                (/\ pc'[r] = "done"
                 /\ result'[r].isError
                 /\ result'[r].text[2] \in {"ENOENT", "ENOTDIR"})
          /\ (pc[r] = "walk" /\ RootOf(r) \in dirs /\ NothingMatches(r)
              /\ pc'[r] \notin {"walk", "idle"}) =>
                (/\ pc'[r] = "done"
                 /\ result'[r].list = <<>>
                 /\ result'[r].text[2] \notin {"ENOENT", "ENOTDIR"}
                 /\ result'[r].isError <=> req[r].tool \in {"copy_file", "move_file"}
                 /\ result'[r].isError =>
                       result'[r].text = <<"Error: ", "File not found">>)]_vars

\* C24 witness: copy_file from a source directory that does not exist has ended
\* with the error of the search.
C24_Witness ==
    /\ Done(1) /\ req[1].tool = "copy_file"
    /\ req[1].args.source = Some(sInbox)
    /\ req[1].args.filename = Some(sReport)
    /\ join(CWD, sInbox) \notin dirs
    /\ result[1].isError /\ result[1].text = <<"Error: ", "ENOENT">>


\* The directories the walk of request r has still to read: the one it is
\* about to read, those among the entries it has read and not yet looked at,
\* and every directory below them.
Remaining(r) ==
    IF pc[r] # "walk" THEN {}
    ELSE LET tops == {loc[r].pending} \cup
                     UNION {{e.path : e \in {x \in Range(loc[r].stack[k]) : x.kind = "dir"}} :
                               k \in 1..Len(loc[r].stack)}
         IN {d \in dirs : \E t \in tops : d = t \/ startsWith(d, t \o <<Sep>>)}


\* C25: every request that has arrived ends with a result; each step of the
\* recursive walk reads a directory it has still to read and never has that
\* directory to read again, so that every directory is read at most once; and
\* the naming loop has made at most (entries of the destination directory + 1)
\* probes when it ends.
C25_Terminates ==
    /\ \A r \in Slots : (pc[r] \notin {"idle", "done"}) ~> (pc[r] = "done")
    /\ [][\A r \in Slots :
            (pc[r] = "walk" /\ loc[r].pending \in dirs
             /\ <<pc'[r], loc'[r]>> # <<pc[r], loc[r]>>) =>
                (/\ loc[r].pending \in Remaining(r)
                 /\ Remaining(r)' \subseteq Remaining(r) \ {loc[r].pending})]_vars
    /\ [](\A r \in Slots :
            (pc[r] \in {"probe", "write"} /\ req[r].tool \in MoveCopyTools) =>
                loc[r].counter <= Cardinality(Children(dirs, files, loc[r].destDir)) + 1)

\* C25 witness: move_svg_files has ended with a result after the walk has read
\* Downloads and Downloads/sub and the naming loop has made three probes for
\* the last file, which is in Documents/Icons as a_2.svg.
C25_Witness ==
    /\ Succeeded(1) /\ req[1].tool = "move_svg_files"
    /\ req[1].args.subfolder = Some(sIcons)
    /\ join(DOWNLOADS_DIR, sSub) \in dirs
    /\ join(join(DOCUMENTS_DIR, sIcons), sA) \in DOMAIN fs0[1].files
    /\ join(join(DOCUMENTS_DIR, sIcons), <<"a", "_", "2", ".", "svg">>) \in DOMAIN files


\* The regular files that lie directly in directory d.
FilesIn(ff, d) == {p \in DOMAIN ff : dirname(p) = d}

\* Request r has moved several files and has ended with its success message.
MovedAll(r) ==
    /\ Succeeded(r) /\ MultiFile(req[r].tool)
    /\ result[r].text[2] \in {"Successfully moved SVG file(s)", "Success! Moved all SVGs"}

\* The files request r had to move: the filesystem the search ran on (for
\* unzip_and_move_svgs the one after the extraction) and the SVG files below
\* the directory searched.
MatchedBy(r) ==
    LET args == req[r].args
        fs == fs0[r]
    IN IF req[r].tool = "move_svg_files"
       THEN LET sourceDir == IF Truthy(args.source) THEN resolve(args.source[1])
                             ELSE DOWNLOADS_DIR
            IN [files |-> fs.files, paths |-> SvgBelow(fs, sourceDir)]
       ELSE LET extractPath == join(DOWNLOADS_DIR, basenameExt(args.filename[1], sZipExt))
                zip == ZipEntries(fs.files[join(DOWNLOADS_DIR, args.filename[1])].content)
                ff == extractFiles(fs.files, extractPath, zip.entries)
            IN [files |-> ff, paths |-> SvgBelow([dirs |-> fs.dirs, files |-> ff],
                                                 extractPath)]

\* Two or more of the files request r had to move have one base name.
SharedBaseName(r) ==
    \E p, q \in MatchedBy(r).paths : p # q /\ basename(p) = basename(q)

\* Every file request r had to move is stored once, in the destination
\* directory and nowhere else.
EachStoredOnce(r) ==
    \A p \in MatchedBy(r).paths :
        LET at == {q \in DOMAIN files : files[q].content = MatchedBy(r).files[p].content}
        IN Cardinality(at) = 1 /\ at \subseteq FilesIn(files, result[r].path)

\* The number of files by which the destination directory of request r has
\* grown.
Growth(r) ==
    Cardinality(FilesIn(files, result[r].path))
        - Cardinality(FilesIn(fs0[r].files, result[r].path))

\* C26 as stated: when files of one base name are moved, the destination
\* directory has grown by the number of matched files and every matched file
\* is stored once in it.
C26_AsStated ==
    \A r \in Slots :
        (MovedAll(r) /\ SharedBaseName(r)) =>
            /\ Growth(r) = Cardinality(MatchedBy(r).paths)
            /\ EachStoredOnce(r)

\* The name the k-th moved file of request r has been given, when no matched
\* file lay in the destination directory: its own name when that was free
\* there, else the first free numbered name, the names given to the files
\* moved before it being taken.
NamedInOrder(r, k) ==
    LET dest == result[r].path
        names == result[r].list
        m == MatchedBy(r)
        src == CHOOSE p \in m.paths :
                   m.files[p].content = files[join(dest, names[k])].content
        taken == FilesIn(fs0[r].files, dest) \cup {join(dest, names[j]) : j \in 1..(k - 1)}
        name == basename(src)
    IN IF join(dest, name) \notin taken THEN names[k] = name
       ELSE \E n \in 1..(Cardinality(taken) + 1) :
               /\ names[k] = NumberedName(name, n)
               /\ join(dest, names[k]) \notin taken
               /\ \A i \in 1..(n - 1) : join(dest, NumberedName(name, i)) \in taken

\* C26: after a multi-file move that has succeeded, the names reported are as
\* many as the matched files and differ from one another, every matched file
\* is stored once, in the destination directory and nowhere else, and the
\* destination directory has grown by the number of matched files that did not
\* lie in it before; when none of them lay in it, the files have the names
\* name, name_1, name_2, ... that were free, in the order they were moved.
C26_DistinctDestinations ==
    \A r \in Slots :
        MovedAll(r) =>
            LET dest == result[r].path
                names == result[r].list
                m == MatchedBy(r)
                resident == {p \in m.paths : dirname(p) = dest}
            IN /\ Len(names) = Cardinality(m.paths)
               /\ \A j, k \in 1..Len(names) : j # k => names[j] # names[k]
               /\ \A k \in 1..Len(names) : join(dest, names[k]) \in DOMAIN files
               /\ EachStoredOnce(r)
               /\ Growth(r) = Cardinality(m.paths \ resident)
               /\ resident = {} => \A k \in 1..Len(names) : NamedInOrder(r, k)

\* C26 witness: move_svg_files has moved a.svg of Downloads and a.svg of
\* Downloads/sub to Documents/Icons, where a.svg was taken: they are a_1.svg
\* and a_2.svg there.
C26_Witness ==
    /\ MovedAll(1) /\ req[1].tool = "move_svg_files"
    /\ req[1].args.source = Absent /\ req[1].args.subfolder = Some(sIcons)
    /\ SharedBaseName(1)
    /\ join(join(DOCUMENTS_DIR, sIcons), sA) \in DOMAIN fs0[1].files
    /\ Range(result[1].list) = {NumberedName(sA, 1), NumberedName(sA, 2)}
    /\ Growth(1) = 2


\* Both requests are move_file for the file of this name at the top level of
\* Downloads, which was there when the first of them arrived, both have ended
\* and no other request has been made.
BothMoved(name) ==
    /\ served = Cardinality(Slots)
    /\ \A r \in Slots :
          /\ Done(r) /\ req[r].tool = "move_file"
          /\ req[r].args.filename = Some(name)
    /\ \E r \in Slots : join(DOWNLOADS_DIR, name) \in DOMAIN fs0[r].files

\* The filesystem the first of the two requests found.
FirstFs(name) ==
    fs0[CHOOSE r \in Slots : join(DOWNLOADS_DIR, name) \in DOMAIN fs0[r].files]

\* The paths that hold the content the file at path p had at first.
HoldersOf(name, p) ==
    {q \in DOMAIN files : files[q].content = FirstFs(name).files[p].content}

\* The files of that base name that lay deeper below Downloads at first.
Twins(name) ==
    {q \in FilesBelow(FirstFs(name), DOWNLOADS_DIR) :
        q # join(DOWNLOADS_DIR, name) /\ basename(q) = name}

ConcNames == {sA, sSub \o <<Sep>> \o sA}

\* C27 as stated: of two move_file requests for one file, one reports success
\* and the other ends with an error result, and the content of the file is at
\* one path.
C27_AsStated ==
    \A name \in ConcNames :
        BothMoved(name) =>
            /\ Cardinality({r \in Slots : Succeeded(r)}) = 1
            /\ Cardinality(HoldersOf(name, join(DOWNLOADS_DIR, name))) = 1

\* C27: of two move_file requests for one file, in any interleaving, at least
\* one reports success and the content of the file is at one path, in the
\* documents root, and no longer at its source path; both report success only
\* when a file of that name lay deeper below the source directory, which the
\* later request has found and moved in its place, its content being at one
\* path of the documents root as well; otherwise the other request has ended
\* with an error result.
C27_OneMoves ==
    \A name \in ConcNames :
        BothMoved(name) =>
            LET p == join(DOWNLOADS_DIR, name)
            IN /\ \E r \in Slots : Succeeded(r)
               /\ p \notin DOMAIN files
               /\ Cardinality(HoldersOf(name, p)) = 1
               /\ HoldersOf(name, p) \subseteq FilesIn(files, DOCUMENTS_DIR)
               /\ (\A r \in Slots : Succeeded(r)) =>
                     \E q \in Twins(name) :
                        /\ q \notin DOMAIN files
                        /\ Cardinality(HoldersOf(name, q)) = 1
                        /\ HoldersOf(name, q) \subseteq FilesIn(files, DOCUMENTS_DIR)
                        /\ HoldersOf(name, q) # HoldersOf(name, p)
               /\ Twins(name) = {} =>
                     \E r \in Slots : result[r].isError

\* C27 witness: both requests have found a.svg in Downloads, request 1 has
\* moved it and request 2 has ended with the error of its rename; no other
\* a.svg was there.
C27_Witness ==
    /\ BothMoved(sA) /\ Twins(sA) = {}
    /\ Succeeded(1)
    /\ result[2].isError /\ result[2].text = <<"Error: ", "ENOENT">>
    /\ join(DOCUMENTS_DIR, sA) \in DOMAIN files


\* Both requests are create_directory for this name in the documents root,
\* where no such path was when the first of them arrived, and both have ended.
BothCreated(name) ==
    /\ \A r \in Slots :
          /\ Done(r) /\ req[r].tool = "create_directory"
          /\ req[r].args.name = Some(name) /\ req[r].args.location = Absent
    /\ \E r \in Slots :
          ~Exists(fs0[r].dirs, fs0[r].files, join(DOCUMENTS_DIR, name))

\* The requests that report this message.
Reporting(message) == {r \in Slots : Done(r) /\ result[r].text[2] = message}

\* C28 as stated: of two create_directory requests for one absent directory, at
\* most one reports that it has created the directory and the other reports
\* that the directory exists; neither ends with an error result and the
\* directory is there afterwards.
C28_AsStated ==
    \A name \in {sProjects, sProjects \o <<Sep>> \o sSub} :
        BothCreated(name) =>
            /\ Cardinality(Reporting("Successfully created directory")) <= 1
            /\ Cardinality(Reporting("Directory already exists")) >= 1
            /\ \A r \in Slots : ~result[r].isError
            /\ join(DOCUMENTS_DIR, name) \in dirs


\* Request r of move_file is about to rename a file that lies in the
\* destination directory itself.
MovesWithinDest(r) ==
    /\ pc[r] = "write" /\ req[r].tool = "move_file"
    /\ loc[r].sourceFile \in DOMAIN files
    /\ dirname(loc[r].sourceFile) = loc[r].destDir

\* C29: when the file move_file has found lies in the destination directory,
\* the rename gives it the name stem_n.ext for the least n >= 1 that is free
\* there (stem_1.ext when that is free) and the request reports success with
\* that path; the path the file had no longer exists and nothing else has
\* changed.
C29_RenamesInPlace ==
    [][\A r \in Slots :
          MovesWithinDest(r) /\ pc'[r] # pc[r] =>
              LET src == loc[r].sourceFile
                  d == loc[r].destDir
                  n == FirstFree([dirs |-> dirs, files |-> files], d, basename(src))
                  dst == join(d, NumberedName(basename(src), n))
              IN /\ pc'[r] = "done"
                 /\ ~result'[r].isError
                 /\ result'[r].text[2] = "Successfully moved"
                 /\ result'[r].path = dst
                 /\ DOMAIN files' = (DOMAIN files \ {src}) \cup {dst}
                 /\ files'[dst] = files[src]
                 /\ \A q \in DOMAIN files \ {src} : files'[q] = files[q]
                 /\ dirs' = dirs]_vars

\* C29 witness: move_file with source "Documents" and no destination_folder
\* has renamed report.pdf of the documents root to report_1.pdf there.
C29_Witness ==
    /\ Succeeded(1) /\ req[1].tool = "move_file"
    /\ req[1].args.source = Some(<<"Documents">>)
    /\ req[1].args.destination_folder = Absent
    /\ req[1].args.filename = Some(sReport)
    /\ join(DOCUMENTS_DIR, sReport) \in DOMAIN fs0[1].files
    /\ join(DOCUMENTS_DIR, sReport) \notin DOMAIN files
    /\ join(DOCUMENTS_DIR, sReport1) \notin DOMAIN fs0[1].files
    /\ result[1].path = join(DOCUMENTS_DIR, sReport1)
    /\ files[join(DOCUMENTS_DIR, sReport1)] = fs0[1].files[join(DOCUMENTS_DIR, sReport)]


ListingTools == {"list_files", "list_svg_files", "list_zip_files"}

\* C30: from the arrival of a list_files, list_svg_files or list_zip_files
\* request to its result, whatever its arguments and whether it ends with a
\* list, with an empty result or with an error, the directories, the files and
\* the content and time of every file are those the request found; no step of
\* such a request changes them.
C30_ListingReadOnly ==
    /\ [](\A r \in Slots : req[r].tool \in ListingTools => Untouched(r))
    /\ [][\A r \in Slots :
            (req[r].tool \in ListingTools \/ req'[r].tool \in ListingTools) =>
                (dirs' = dirs /\ files' = files)]_vars

\* C30 witness: list_svg_files has ended with the SVG files of a Downloads
\* directory that has some, and the filesystem is as it was.
C30_Witness ==
    /\ Succeeded(1) /\ req[1].tool = "list_svg_files"
    /\ result[1].list # <<>>
    /\ SvgBelow(fs0[1], DOWNLOADS_DIR) # {}
    /\ dirs = fs0[1].dirs /\ files = fs0[1].files

=============================================================================
